---------------------------- MODULE Spec2Model ----------------------------
(***************************************************************************)
(* KnightSprint++: the deterministic game engine (state.js), the AI layer  *)
(* (ai.js) and the turn orchestrator (game.js) as a state machine.         *)
(*                                                                         *)
(* Spec      drives the exported engine functions submitMove, resolveTurn  *)
(*           and evaluateState on a state made by initState, in the order  *)
(*           of the phases, with legal and illegal intents.                *)
(* SpecGame  runs the orchestrator: startGame, cell clicks, confirm, timer *)
(*           expiry, the delayed resolveWithAiMoves callbacks and the      *)
(*           awaits of executeResolution, in every interleaving.  The      *)
(*           keyboard handler selects, clears and confirms a legal move    *)
(*           like handleCellClick and handleConfirm and is not modelled    *)
(*           apart.                                                        *)
(* SpecInit  calls initState, and with it placeObstacles, on a bounded set *)
(*           of configurations.                                            *)
(* SpecAi    calls computeAiMove for every player id, round after round,   *)
(*           on games whose players use the mobility, aggressor and        *)
(*           balanced strategies, a strategy registered as 'x' and a name  *)
(*           that is not registered.                                       *)
(* SpecRng   makes a generator with makeRng for each seed of a bounded set *)
(*           and calls it again and again.                                 *)
(* SpecProgress runs the orchestrator like SpecGame, on games in which the *)
(*           human is eliminated before the CPU players, and states that   *)
(*           scheduled callbacks run and awaits resume.                    *)
(***************************************************************************)
EXTENDS Integers, Sequences, FiniteSets, TLC

VARIABLES
    GS,            \* the current GameState value (game.js: GS)
    events,        \* the event list returned by the last resolveTurn / evaluateState
    raised,        \* TRUE iff the last engine call threw instead of returning
    lastOp,        \* name of the operation that produced the current state
    phaseLog,      \* the values assigned to GS.phase by the last step, in order
    config,        \* game.js: _config
    selectedMove,  \* game.js: _selectedMove (NoCell for null)
    resolving,     \* game.js: _resolving
    timer,         \* ui.js: the interval armed by startTimer, with its onExpire closure
    aiTimeouts,    \* number of pending setTimeout(resolveWithAiMoves) callbacks
    conts,         \* executeResolution calls suspended at an await
    gameId,        \* number of startGame calls so far
    intents,       \* the intents handleConfirm has submitted in the first game, in order
    probe          \* what the last step's engine or computeAiMove calls did

vars == <<GS, events, raised, lastOp, phaseLog, config, selectedMove, resolving,
          timer, aiTimeouts, conts, gameId, intents, probe>>

-----------------------------------------------------------------------------
(* Bounds of the model *)

\* Spec: resolveTurn is not called once turn has reached MaxTurn
MaxTurn == 3

\* SpecGame: no round is resolved once turn has reached MaxRounds
MaxRounds == 11

\* SpecGame: startGame is called at most MaxGames times
MaxGames == 2
MaxCalls == 16

-----------------------------------------------------------------------------
(* Constants of state.js *)

EMPTY == 0
BLOCKED == 1
OBSTACLE == 2

SELECT == "select"
RESOLVE == "resolve"
EVAL == "evaluate"
GAMEOVER == "gameover"

ALIVE == "alive"
ELIMINATED == "eliminated"
WINNER == "winner"

KNIGHT_MOVES ==
    << <<-2,-1>>, <<-2,1>>, <<-1,-2>>, <<-1,2>>,
       <<1,-2>>, <<1,2>>, <<2,-1>>, <<2,1>> >>

MAX_ATTEMPTS == 2000

-----------------------------------------------------------------------------
(* Seeded RNG: xorshift32.  The 32-bit word x is held as the set of the     *)
(* positions of its 1 bits, so that xor is a symmetric difference and a     *)
(* shift is a translation cut to 0..31 (the word never leaves 32 bits).     *)

BitsOf(n) == {i \in 0..30 : (n \div (2^i)) % 2 = 1}

\* seed | 0 : the two's complement bit pattern of an int32
ToInt32Bits(n) == IF n >= 0 THEN BitsOf(n) ELSE (0..31) \ BitsOf(-n - 1)

Xor(a, b) == (a \ b) \cup (b \ a)
Shl(a, n) == {i + n : i \in {j \in a : j + n <= 31}}
Shr(a, n) == {i - n : i \in {j \in a : j >= n}}

makeRng_KeepsZero(seed) == ToInt32Bits(seed)

\* let x = (seed | 0) || 1
makeRng(seed) ==
    IF ToInt32Bits(seed) = {} THEN BitsOf(1) ELSE ToInt32Bits(seed)

\* x ^= x << 13; x ^= x >>> 17; x ^= x << 5
rngStep(x) ==
    LET x1 == Xor(x, Shl(x, 13))
        x2 == Xor(x1, Shr(x1, 17))
    IN  Xor(x2, Shl(x2, 5))

RECURSIVE HalfWord(_, _, _)
HalfWord(x, base, k) ==
    IF k > 15 THEN 0
    ELSE (IF (base + k) \in x THEN 2^k ELSE 0) + HalfWord(x, base, k + 1)

\* the numerator of (x >>> 0) / 4294967296, as the two 16-bit halves of x
rngValue(x) == [hi |-> HalfWord(x, 16, 0), lo |-> HalfWord(x, 0, 0)]

\* Math.floor(((x >>> 0) / 4294967296) * size), on the two 16-bit halves of x
rngFloorMul(x, size) ==
    (HalfWord(x, 16, 0) * size + ((HalfWord(x, 0, 0) * size) \div 65536)) \div 65536

\* ((x >>> 0) / 4294967296) > 0.5, i.e. x > 2^31
rngGtHalf(x) == 31 \in x /\ x # {31}

-----------------------------------------------------------------------------
(* Board utilities *)

inBounds(r, c, size) == r >= 0 /\ r < size /\ c >= 0 /\ c < size

Dest(r, c, i) == <<r + KNIGHT_MOVES[i][1], c + KNIGHT_MOVES[i][2]>>

getLegalMoves_AnyMarker(r, c, size, visited) ==
    LET all == [i \in 1..8 |-> Dest(r, c, i)]
        ok(d) == inBounds(d[1], d[2], size)
    IN  SelectSeq(all, ok)

getLegalMoves(r, c, size, visited) ==
    LET all == [i \in 1..8 |-> Dest(r, c, i)]
        ok(d) == inBounds(d[1], d[2], size) /\ visited[d[1]][d[2]] = EMPTY
    IN  SelectSeq(all, ok)

countMobility(r, c, size, visited) == Len(getLegalMoves(r, c, size, visited))

makeGrid(size) == [r \in 0..(size - 1) |-> [c \in 0..(size - 1) |-> EMPTY]]

SetCell(visited, r, c, v) == [visited EXCEPT ![r][c] = v]

-----------------------------------------------------------------------------
(* State factories *)

\* Variant: the start cells are the corners of the board itself
defaultStartPositions_NoPad(n, size) ==
    SubSeq(<< <<0, 0>>, <<size - 1, size - 1>>, <<0, size - 1>>, <<size - 1, 0>> >>, 1, n)

defaultStartPositions(n, size) ==
    LET pad == size \div 5
        positions == << <<pad, pad>>,
                        <<size - 1 - pad, size - 1 - pad>>,
                        <<pad, size - 1 - pad>>,
                        <<size - 1 - pad, pad>> >>
    IN  SubSeq(positions, 1, n)

SeqToSet(s) == {s[i] : i \in DOMAIN s}

\* the condition of the while loop of placeObstacles
placeMore(st, count) == Len(st.obstacles) < count /\ st.attempts < MAX_ATTEMPTS

\* Variant: the cell drawn is taken without the test
placeStep_AnyCell(size, st) ==
    LET xr == rngStep(st.rng)
        xc == rngStep(xr)
        k  == <<rngFloorMul(xr, size), rngFloorMul(xc, size)>>
    IN  [rng |-> xc, occupied |-> st.occupied \cup {k},
         obstacles |-> Append(st.obstacles, k), attempts |-> st.attempts + 1]

\* one pass of the loop body: two draws of the generator, then the test of the cell
placeStep(size, st) ==
    LET xr == rngStep(st.rng)
        xc == rngStep(xr)
        k  == <<rngFloorMul(xr, size), rngFloorMul(xc, size)>>
    IN  IF k \notin st.occupied
        THEN [rng |-> xc, occupied |-> st.occupied \cup {k},
              obstacles |-> Append(st.obstacles, k), attempts |-> st.attempts + 1]
        ELSE [st EXCEPT !.rng = xc, !.attempts = st.attempts + 1]

\* up to n passes of the loop, stopping as soon as the loop condition fails
\* (evaluated by halving n, which keeps the evaluation shallow)
RECURSIVE placeRun(_, _, _, _)
placeRun(size, st, count, n) ==
    IF n = 0 \/ ~placeMore(st, count) THEN st
    ELSE IF n = 1 THEN placeStep(size, st)
    ELSE LET half == placeRun(size, st, count, n \div 2)
         IN  placeRun(size, half, count, n - (n \div 2))

placeLoop(size, x, occupied, obstacles, count, attempts) ==
    LET st == placeRun(size,
                       [rng |-> x, occupied |-> occupied,
                        obstacles |-> obstacles, attempts |-> attempts],
                       count, MAX_ATTEMPTS)
    IN  [obstacles |-> st.obstacles, rng |-> st.rng, attempts |-> st.attempts]

placeObstacles(size, x, startPositions, count) ==
    LET starts == SeqToSet(startPositions)
        occupied == starts \cup
                    {Dest(s[1], s[2], i) : s \in starts, i \in 1..8}
    IN  placeLoop(size, x, occupied, <<>>, count, 0)

Max(a, b) == IF a >= b THEN a ELSE b

RECURSIVE MarkAll(_, _, _, _)
MarkAll(visited, cells, i, v) ==
    IF i > Len(cells) THEN visited
    ELSE MarkAll(SetCell(visited, cells[i][1], cells[i][2], v), cells, i + 1, v)

\* initState from "const visited = makeGrid(size)" on, given what placeObstacles
\* returned
initWith(cfg, placed) ==
    LET size == cfg.boardSize
        humanCount == Max(1, cfg.playerCount - cfg.cpuCount)
        starts == defaultStartPositions(cfg.playerCount, size)
        players == [i \in 0..(cfg.playerCount - 1) |->
                      [id |-> i,
                       isHuman |-> i < humanCount,
                       status |-> ALIVE,
                       row |-> starts[i + 1][1],
                       col |-> starts[i + 1][2],
                       score |-> 1,
                       aiStrategy |-> IF i = 0 THEN "null"
                                      ELSE IF i % 2 = 1 THEN "mobility"
                                      ELSE "aggressor"]]
        visited == MarkAll(MarkAll(makeGrid(size), starts, 1, BLOCKED),
                           placed.obstacles, 1, OBSTACLE)
    IN  [boardSize |-> size,
         seed |-> cfg.seed,
         turn |-> 0,
         phase |-> SELECT,
         players |-> players,
         visited |-> visited,
         obstacles |-> placed.obstacles,
         pendingMoves |-> << >>,
         ruleset |-> [timerSeconds |-> cfg.timerSeconds,
                      obstacleCount |-> cfg.obstacleCount],
         rng |-> placed.rng,
         history |-> << >>]

initState(cfg) ==
    initWith(cfg, placeObstacles(cfg.boardSize, makeRng(cfg.seed),
                                 defaultStartPositions(cfg.playerCount, cfg.boardSize),
                                 cfg.obstacleCount))

-----------------------------------------------------------------------------
(* Move submission and resolution *)

NoPid == -1
NoCell == << >>

Event(type, pid, from, square, score) ==
    [type |-> type, pid |-> pid, from |-> from, square |-> square, score |-> score]

\* s.pendingMoves.set(playerId, [row, col])
MapSet(m, k, v) == [x \in (DOMAIN m) \cup {k} |-> IF x = k THEN v ELSE m[x]]

\* cloneState: the copy, and the fields of the copy that are still the
\* argument's own objects.  players is copied object by object, visited row by
\* row, obstacles cell by cell, pendingMoves, ruleset and the history array are
\* new containers, turn and phase are fields of the new object; rng is the one
\* closure both states hold.
cloneState_SharesGrid(state) == [s |-> state, shared |-> {"rng", "visited"}]

cloneState(state) == [s |-> state, shared |-> {"rng"}]

\* the caller's state object after a call that worked on cloneState(state) and
\* left the copy as next: what was written to a shared field is written to
\* the argument as well
InputAfter(state, next) ==
    [c \in DOMAIN state |->
        IF c \in cloneState(state).shared THEN next[c] ELSE state[c]]

\* the fields of the argument that such a call changed
Touched(state, next) == {c \in DOMAIN state : InputAfter(state, next)[c] # state[c]}

submitMove(state, playerId, row, col) ==
    [state EXCEPT !.pendingMoves = MapSet(state.pendingMoves, playerId, <<row, col>>)]

AliveIds(players) == {i \in DOMAIN players : players[i].status = ALIVE}

\* intended: pid -> [r,c], for the ALIVE players that have a pending move
Intended_AnyStatus(state) ==
    [i \in DOMAIN state.pendingMoves |-> state.pendingMoves[i]]

Intended(state) ==
    [i \in (AliveIds(state.players) \cap DOMAIN state.pendingMoves) |->
        state.pendingMoves[i]]

\* destCount.get(k): how many intended moves target cell k
destCount(intended, k) == Cardinality({i \in DOMAIN intended : intended[i] = k})

\* Variant of the "Execute move" block, used to show what the properties below
\* depend on: it frees the cell the player leaves.
executeMove_FreesOrigin(acc, pid, nr, nc) ==
    LET p == acc.players[pid]
        from == <<p.row, p.col>>
    IN  [acc EXCEPT
            !.players[pid].row = nr,
            !.players[pid].col = nc,
            !.players[pid].score = p.score + 1,
            !.visited = SetCell(SetCell(acc.visited, p.row, p.col, EMPTY), nr, nc, BLOCKED),
            !.events = Append(acc.events, Event("move", pid, from, <<nr, nc>>, 0)),
            !.moves = Append(acc.moves, [pid |-> pid, from |-> from, to |-> <<nr, nc>>])]

\* Variant: the move is executed but not pushed on the turn record
executeMove_NoRecord(acc, pid, nr, nc) ==
    LET p == acc.players[pid]
        from == <<p.row, p.col>>
    IN  [acc EXCEPT
            !.players[pid].row = nr,
            !.players[pid].col = nc,
            !.players[pid].score = p.score + 1,
            !.visited = SetCell(acc.visited, nr, nc, BLOCKED),
            !.events = Append(acc.events, Event("move", pid, from, <<nr, nc>>, 0))]

\* Variant: the move is executed but the score is not incremented
executeMove_NoScore(acc, pid, nr, nc) ==
    LET p == acc.players[pid]
        from == <<p.row, p.col>>
    IN  [acc EXCEPT
            !.players[pid].row = nr,
            !.players[pid].col = nc,
            !.visited = SetCell(acc.visited, nr, nc, BLOCKED),
            !.events = Append(acc.events, Event("move", pid, from, <<nr, nc>>, 0)),
            !.moves = Append(acc.moves, [pid |-> pid, from |-> from, to |-> <<nr, nc>>])]

\* the "Execute move" block of resolveTurn for player pid and destination (nr, nc)
executeMove(acc, pid, nr, nc) ==
    LET p == acc.players[pid]
        from == <<p.row, p.col>>
    IN  [acc EXCEPT
            !.players[pid].row = nr,
            !.players[pid].col = nc,
            !.players[pid].score = p.score + 1,
            !.visited = SetCell(acc.visited, nr, nc, BLOCKED),
            !.events = Append(acc.events, Event("move", pid, from, <<nr, nc>>, 0)),
            !.moves = Append(acc.moves, [pid |-> pid, from |-> from, to |-> <<nr, nc>>])]

\* Variants of the loop body: one that cancels only three-way collisions, one
\* that counts a blocked intent as a visited square, one that skips the EMPTY
\* test.
resolveOne_PairMoves(acc, size, intended, pid) ==
    LET nr == intended[pid][1]
        nc == intended[pid][2]
    IN  IF destCount(intended, <<nr, nc>>) > 2
        THEN [acc EXCEPT !.events =
                 Append(acc.events, Event("collision", NoPid, NoCell, <<nr, nc>>, 0))]
        ELSE IF ~(nr >= 0 /\ nr < size)
        THEN [acc EXCEPT !.threw = TRUE]
        ELSE IF ~(nc >= 0 /\ nc < size) \/ acc.visited[nr][nc] # EMPTY
        THEN [acc EXCEPT !.events =
                 Append(acc.events, Event("blocked", pid, NoCell, <<nr, nc>>, 0))]
        ELSE executeMove(acc, pid, nr, nc)

resolveOne_BlockedScores(acc, size, intended, pid) ==
    LET nr == intended[pid][1]
        nc == intended[pid][2]
    IN  IF destCount(intended, <<nr, nc>>) > 1
        THEN [acc EXCEPT !.events =
                 Append(acc.events, Event("collision", NoPid, NoCell, <<nr, nc>>, 0))]
        ELSE IF ~(nr >= 0 /\ nr < size)
        THEN [acc EXCEPT !.threw = TRUE]
        ELSE IF ~(nc >= 0 /\ nc < size) \/ acc.visited[nr][nc] # EMPTY
        THEN [acc EXCEPT
                 !.players[pid].score = acc.players[pid].score + 1,
                 !.events =
                     Append(acc.events, Event("blocked", pid, NoCell, <<nr, nc>>, 0))]
        ELSE executeMove(acc, pid, nr, nc)

resolveOne_NoEmptyTest(acc, size, intended, pid) ==
    LET nr == intended[pid][1]
        nc == intended[pid][2]
    IN  IF destCount(intended, <<nr, nc>>) > 1
        THEN [acc EXCEPT !.events =
                 Append(acc.events, Event("collision", NoPid, NoCell, <<nr, nc>>, 0))]
        ELSE IF ~(nr >= 0 /\ nr < size)
        THEN [acc EXCEPT !.threw = TRUE]
        ELSE IF ~(nc >= 0 /\ nc < size)
        THEN [acc EXCEPT !.events =
                 Append(acc.events, Event("blocked", pid, NoCell, <<nr, nc>>, 0))]
        ELSE executeMove(acc, pid, nr, nc)

\* one iteration of the second "for (const p of alive)" loop of resolveTurn.
\* s.visited[nr] is undefined for a row outside the grid, and reading [nc] of it
\* throws; s.visited[nr][nc] is undefined (hence !== EMPTY) for a column outside.
resolveOne(acc, size, intended, pid) ==
    LET nr == intended[pid][1]
        nc == intended[pid][2]
    IN  IF destCount(intended, <<nr, nc>>) > 1
        THEN [acc EXCEPT !.events =
                 Append(acc.events, Event("collision", NoPid, NoCell, <<nr, nc>>, 0))]
        ELSE IF ~(nr >= 0 /\ nr < size)
        THEN [acc EXCEPT !.threw = TRUE]
        ELSE IF ~(nc >= 0 /\ nc < size) \/ acc.visited[nr][nc] # EMPTY
        THEN [acc EXCEPT !.events =
                 Append(acc.events, Event("blocked", pid, NoCell, <<nr, nc>>, 0))]
        ELSE executeMove(acc, pid, nr, nc)

RECURSIVE resolveLoop(_, _, _, _, _)
resolveLoop(acc, size, intended, pid, n) ==
    IF pid >= n \/ acc.threw THEN acc
    ELSE IF pid \in DOMAIN intended
         THEN resolveLoop(resolveOne(acc, size, intended, pid), size, intended, pid + 1, n)
         ELSE resolveLoop(acc, size, intended, pid + 1, n)

\* returns nextState and events, or threw = TRUE when the call raises
resolveTurn(state) ==
    LET intended == Intended(state)
        acc0 == [players |-> state.players, visited |-> state.visited,
                 events |-> << >>, moves |-> << >>, threw |-> FALSE]
        acc == resolveLoop(acc0, state.boardSize, intended, 0, Cardinality(DOMAIN state.players))
        turnRecord == [turn |-> state.turn, moves |-> acc.moves]
    IN  [threw |-> acc.threw,
         events |-> acc.events,
         nextState |-> [state EXCEPT
                          !.players = acc.players,
                          !.visited = acc.visited,
                          !.history = Append(state.history, turnRecord),
                          !.pendingMoves = << >>,
                          !.turn = state.turn + 1,
                          !.phase = EVAL]]

-----------------------------------------------------------------------------
(* Evaluation *)

\* Variant: a player with a single legal move left counts as stuck
HasNoMoves_AtMostOne(state, p) ==
    Len(getLegalMoves(p.row, p.col, state.boardSize, state.visited)) <= 1

HasNoMoves(state, p) ==
    Len(getLegalMoves(p.row, p.col, state.boardSize, state.visited)) = 0

\* the players evaluateState eliminates: ALIVE on entry, zero legal moves
Eliminated(state) ==
    {i \in AliveIds(state.players) : HasNoMoves(state, state.players[i])}

\* Variant: the score of the first player stands for the maximum
MaxScore_First(players, i, n) == players[0].score

RECURSIVE MaxScore(_, _, _)
MaxScore(players, i, n) ==
    IF i >= n THEN -1 ELSE Max(players[i].score, MaxScore(players, i + 1, n))

\* events in player-id order, one per player of the set ids
RECURSIVE EventsFor(_, _, _, _, _)
EventsFor(type, players, ids, i, n) ==
    IF i >= n THEN << >>
    ELSE (IF i \in ids
          THEN << Event(type, i, NoCell, NoCell,
                        IF type = "elimination" THEN players[i].score ELSE 0) >>
          ELSE << >>) \o EventsFor(type, players, ids, i + 1, n)

\* Variant: a sole survivor is not marked
Winners_NoSurvivor(players) ==
    IF Cardinality(AliveIds(players)) = 0
    THEN {i \in DOMAIN players :
            players[i].score = MaxScore(players, 0, Cardinality(DOMAIN players))}
    ELSE {}

\* the players marked WINNER once the eliminations are applied
Winners(players) ==
    LET stillAlive == AliveIds(players)
        n == Cardinality(DOMAIN players)
    IN  IF Cardinality(stillAlive) = 1 THEN stillAlive
        ELSE IF Cardinality(stillAlive) = 0
        THEN {i \in DOMAIN players : players[i].score = MaxScore(players, 0, n)}
        ELSE {}

\* Variant: while play goes on, a player eliminated in an earlier round is
\* taken back into the game
evaluateState_Revives(state) ==
    LET n == Cardinality(DOMAIN state.players)
        out == Eliminated(state)
        p1 == [i \in DOMAIN state.players |->
                 IF i \in out THEN [state.players[i] EXCEPT !.status = ELIMINATED]
                 ELSE state.players[i]]
        stillAlive == AliveIds(p1)
        win == Winners(p1)
        p2 == [i \in DOMAIN p1 |->
                 IF i \in win THEN [p1[i] EXCEPT !.status = WINNER]
                 ELSE IF Cardinality(stillAlive) > 1
                         /\ state.players[i].status = ELIMINATED
                 THEN [p1[i] EXCEPT !.status = ALIVE]
                 ELSE p1[i]]
    IN  [events |-> EventsFor("elimination", state.players, out, 0, n)
                    \o EventsFor("winner", p1, win, 0, n),
         nextState |-> [state EXCEPT
                          !.players = p2,
                          !.phase = IF Cardinality(stillAlive) <= 1
                                    THEN GAMEOVER ELSE SELECT]]

\* Variant: the cell of a player eliminated by the call is freed
evaluateState_FreesEliminated(state) ==
    LET n == Cardinality(DOMAIN state.players)
        out == Eliminated(state)
        p1 == [i \in DOMAIN state.players |->
                 IF i \in out THEN [state.players[i] EXCEPT !.status = ELIMINATED]
                 ELSE state.players[i]]
        stillAlive == AliveIds(p1)
        win == Winners(p1)
        p2 == [i \in DOMAIN p1 |->
                 IF i \in win THEN [p1[i] EXCEPT !.status = WINNER] ELSE p1[i]]
    IN  [events |-> EventsFor("elimination", state.players, out, 0, n)
                    \o EventsFor("winner", p1, win, 0, n),
         nextState |-> [state EXCEPT
                          !.players = p2,
                          !.visited = [r \in DOMAIN state.visited |->
                                        [c \in DOMAIN state.visited[r] |->
                                          IF \E i \in out : state.players[i].row = r
                                                            /\ state.players[i].col = c
                                          THEN EMPTY ELSE state.visited[r][c]]],
                          !.phase = IF Cardinality(stillAlive) <= 1
                                    THEN GAMEOVER ELSE SELECT]]

evaluateState(state) ==
    LET n == Cardinality(DOMAIN state.players)
        out == Eliminated(state)
        p1 == [i \in DOMAIN state.players |->
                 IF i \in out THEN [state.players[i] EXCEPT !.status = ELIMINATED]
                 ELSE state.players[i]]
        stillAlive == AliveIds(p1)
        win == Winners(p1)
        p2 == [i \in DOMAIN p1 |->
                 IF i \in win THEN [p1[i] EXCEPT !.status = WINNER] ELSE p1[i]]
    IN  [events |-> EventsFor("elimination", state.players, out, 0, n)
                    \o EventsFor("winner", p1, win, 0, n),
         nextState |-> [state EXCEPT
                          !.players = p2,
                          !.phase = IF Cardinality(stillAlive) <= 1
                                    THEN GAMEOVER ELSE SELECT]]

-----------------------------------------------------------------------------
(* AI strategies (ai.js).  A strategy reads and temporarily writes the grid   *)
(* and draws from the shared generator, so each returns the move chosen with  *)
(* the grid and the generator word it leaves behind.                          *)

\* Variant: the cell scored stays marked
scoreMobility_NoRestore(visited, size, r, c) ==
    LET marked == SetCell(visited, r, c, BLOCKED)
    IN  [mobility |-> countMobility(r, c, size, marked), visited |-> marked]

\* scoreMobility: mark the cell, count the onward moves, restore the cell
scoreMobility(visited, size, r, c) ==
    LET orig == visited[r][c]
        marked == SetCell(visited, r, c, BLOCKED)
        mobility == countMobility(r, c, size, marked)
    IN  [mobility |-> mobility, visited |-> SetCell(marked, r, c, orig)]

\* Variant: a player whose intent is already pending is not counted among the
\* opponents
getOpponents_SkipsCommitted(state, playerId) ==
    {i \in DOMAIN state.players :
        /\ i # playerId
        /\ state.players[i].status = ALIVE
        /\ i \notin DOMAIN state.pendingMoves}

getOpponents(state, playerId) ==
    {i \in DOMAIN state.players :
        i # playerId /\ state.players[i].status = ALIVE}

\* the loop of the 'mobility' strategy; acc = [best, bestScore, rng, visited]
RECURSIVE mobilityLoop(_, _, _, _)
mobilityLoop(acc, size, moves, i) ==
    IF i > Len(moves) THEN acc
    ELSE LET r == moves[i][1]
             c == moves[i][2]
             sm == scoreMobility(acc.visited, size, r, c)
             a1 == [acc EXCEPT !.visited = sm.visited]
             drawn == rngStep(acc.rng)
         IN  IF sm.mobility > acc.bestScore
             THEN mobilityLoop([a1 EXCEPT !.bestScore = sm.mobility, !.best = <<r, c>>],
                               size, moves, i + 1)
             ELSE IF sm.mobility = acc.bestScore
             THEN mobilityLoop([a1 EXCEPT !.rng = drawn,
                                          !.best = IF rngGtHalf(drawn)
                                                   THEN <<r, c>> ELSE acc.best],
                               size, moves, i + 1)
             ELSE mobilityLoop(a1, size, moves, i + 1)

mobilityStrategy(state, playerId, moves) ==
    LET acc == mobilityLoop([best |-> NoCell, bestScore |-> -1,
                             rng |-> state.rng, visited |-> state.visited],
                            state.boardSize, moves, 1)
    IN  [move |-> IF acc.best = NoCell THEN moves[1] ELSE acc.best,
         rng |-> acc.rng, visited |-> acc.visited]

RECURSIVE SumReduction(_, _, _, _)
SumReduction(state, visited, opps, i) ==
    IF i >= Cardinality(DOMAIN state.players) THEN 0
    ELSE (IF i \in opps
          THEN 8 - countMobility(state.players[i].row, state.players[i].col,
                                 state.boardSize, visited)
          ELSE 0) + SumReduction(state, visited, opps, i + 1)

\* the loop of the 'aggressor' strategy; bestScore starts below every score
RECURSIVE aggressorLoop(_, _, _, _, _)
aggressorLoop(acc, state, opps, moves, i) ==
    IF i > Len(moves) THEN acc
    ELSE LET r == moves[i][1]
             c == moves[i][2]
             orig == acc.visited[r][c]
             marked == SetCell(acc.visited, r, c, BLOCKED)
             reduction == SumReduction(state, marked, opps, 0)
             ownMob == countMobility(r, c, state.boardSize, marked)
             combined == reduction * 2 + ownMob
             a1 == [acc EXCEPT !.visited = SetCell(marked, r, c, orig)]
             drawn == rngStep(acc.rng)
         IN  IF acc.best = NoCell \/ combined > acc.bestScore
             THEN aggressorLoop([a1 EXCEPT !.bestScore = combined, !.best = <<r, c>>],
                                state, opps, moves, i + 1)
             ELSE IF combined = acc.bestScore
             THEN aggressorLoop(IF rngGtHalf(drawn)
                                THEN [a1 EXCEPT !.rng = drawn, !.bestScore = combined,
                                                !.best = <<r, c>>]
                                ELSE [a1 EXCEPT !.rng = drawn],
                                state, opps, moves, i + 1)
             ELSE aggressorLoop(a1, state, opps, moves, i + 1)

aggressorStrategy(state, playerId, moves) ==
    LET opps == getOpponents(state, playerId)
        acc == aggressorLoop([best |-> NoCell, bestScore |-> 0,
                              rng |-> state.rng, visited |-> state.visited],
                             state, opps, moves, 1)
    IN  IF opps = {} THEN mobilityStrategy(state, playerId, moves)
        ELSE [move |-> IF acc.best = NoCell THEN moves[1] ELSE acc.best,
              rng |-> acc.rng, visited |-> acc.visited]

\* state.visited.flat().filter(v => v !== 0).length
countOccupied(visited, size) ==
    Cardinality({cell \in (0..(size - 1)) \X (0..(size - 1)) :
                    visited[cell[1]][cell[2]] # EMPTY})

\* score > bestScore of the 'balanced' strategy.  With T cells of which occ are
\* occupied, a score is (mob*(2T - occ) + 4*aggress*occ) / 2T + x / (5 * 2^32)
\* for the generator word x; d1, d2 are the numerators of the first term and
\* twoT is 2T.  Both sides are scaled by 10T * 2^32 and compared on the 16-bit
\* halves of the words.  Two different scores are at least 1 / (10T * 2^32)
\* apart, which is more than the rounding of the double arithmetic.
ScoreGt(d1, x1, d2, x2, twoT) ==
    LET eh == HalfWord(x2, 16, 0) - HalfWord(x1, 16, 0)
        el == HalfWord(x2, 0, 0) - HalfWord(x1, 0, 0)
        a == 5 * (d1 - d2) * 65536 - twoT * eh
        clamped == IF a > twoT THEN twoT ELSE IF a < -twoT THEN -twoT ELSE a
    IN  clamped * 65536 - twoT * el > 0

\* the loop of the 'balanced' strategy; one generator draw per candidate
RECURSIVE balancedLoop(_, _, _, _, _, _)
balancedLoop(acc, state, opps, occupied, moves, i) ==
    IF i > Len(moves) THEN acc
    ELSE LET r == moves[i][1]
             c == moves[i][2]
             total == state.boardSize * state.boardSize
             orig == acc.visited[r][c]
             marked == SetCell(acc.visited, r, c, BLOCKED)
             mob == countMobility(r, c, state.boardSize, marked)
             aggress == SumReduction(state, marked, opps, 0)
             d == mob * (2 * total - occupied) + 4 * aggress * occupied
             drawn == rngStep(acc.rng)
             a1 == [acc EXCEPT !.visited = SetCell(marked, r, c, orig), !.rng = drawn]
         IN  IF acc.best = NoCell
                \/ ScoreGt(d, drawn, acc.bestScore, acc.bestNoise, 2 * total)
             THEN balancedLoop([a1 EXCEPT !.bestScore = d, !.bestNoise = drawn,
                                          !.best = <<r, c>>],
                               state, opps, occupied, moves, i + 1)
             ELSE balancedLoop(a1, state, opps, occupied, moves, i + 1)

balancedStrategy(state, playerId, moves) ==
    LET acc == balancedLoop([best |-> NoCell, bestScore |-> 0, bestNoise |-> state.rng,
                             rng |-> state.rng, visited |-> state.visited],
                            state, getOpponents(state, playerId),
                            countOccupied(state.visited, state.boardSize), moves, 1)
    IN  [move |-> IF acc.best = NoCell THEN moves[1] ELSE acc.best,
         rng |-> acc.rng, visited |-> acc.visited]

\* the function a caller registers with registerStrategy('x', fn): it returns
\* the last legal move and touches neither the grid nor the generator
customStrategy(state, playerId, moves) ==
    [move |-> moves[Len(moves)], rng |-> state.rng, visited |-> state.visited]

\* the keys of STRATEGIES once 'x' is registered
Registered == {"mobility", "aggressor", "balanced", "x"}

\* what one dispatch of computeAiMove leaves in the call log
Invocation(key, playerId, moves) == [name |-> key, pid |-> playerId, moves |-> moves]

Dispatch(key, state, playerId, moves) ==
    IF key = "aggressor" THEN aggressorStrategy(state, playerId, moves)
    ELSE IF key = "balanced" THEN balancedStrategy(state, playerId, moves)
    ELSE IF key = "x" THEN customStrategy(state, playerId, moves)
    ELSE mobilityStrategy(state, playerId, moves)

\* Variant: the registry holds the built-in strategies only
Strategy_BuiltInOnly(name, state, playerId, moves) ==
    LET key == IF name \in Registered \ {"x"} THEN name ELSE "mobility"
    IN  Dispatch(key, state, playerId, moves)
            @@ [calls |-> <<Invocation(key, playerId, moves)>>]

\* (STRATEGIES[stratName] || STRATEGIES['mobility'])(state, player, moves): the
\* strategy's result with the invocation added to it
Strategy(name, state, playerId, moves) ==
    LET key == IF name \in Registered THEN name ELSE "mobility"
    IN  Dispatch(key, state, playerId, moves)
            @@ [calls |-> <<Invocation(key, playerId, moves)>>]

\* Variant: a single legal move is handed to the strategy like any other list
computeAiMove_NoShortcut(state, playerId) ==
    LET none == [move |-> NoCell, rng |-> state.rng, visited |-> state.visited,
                 calls |-> << >>]
    IN  IF playerId \notin DOMAIN state.players THEN none
        ELSE LET player == state.players[playerId]
                 moves == getLegalMoves(player.row, player.col,
                                        state.boardSize, state.visited)
             IN  IF player.status # ALIVE THEN none
                 ELSE IF Len(moves) = 0 THEN none
                 ELSE Strategy(IF player.aiStrategy = "null" THEN "mobility"
                               ELSE player.aiStrategy,
                               state, playerId, moves)

\* the result carries, with the move (NoCell for null), the generator word and
\* the grid the call leaves behind and the strategy invocations it made
computeAiMove(state, playerId) ==
    LET none == [move |-> NoCell, rng |-> state.rng, visited |-> state.visited,
                 calls |-> << >>]
    IN  IF playerId \notin DOMAIN state.players THEN none
        ELSE LET player == state.players[playerId]
                 moves == getLegalMoves(player.row, player.col,
                                        state.boardSize, state.visited)
             IN  IF player.status # ALIVE THEN none
                 ELSE IF Len(moves) = 0 THEN none
                 ELSE IF Len(moves) = 1 THEN [none EXCEPT !.move = moves[1]]
                 ELSE Strategy(IF player.aiStrategy = "null" THEN "mobility"
                               ELSE player.aiStrategy,
                               state, playerId, moves)

-----------------------------------------------------------------------------
(* Spec: the engine driven through its exported functions *)

NoTimer == [armed |-> FALSE, legalMoves |-> << >>]
NoProbe == [op |-> "none"]

\* the orchestrator's own variables, which the engine functions never touch
orch == <<config, selectedMove, resolving, timer, aiTimeouts, conts, gameId, intents>>

\* what an engine call leaves in probe: the fields of its argument it changed
\* and, for resolveTurn, the pendingMoves it was handed
CallProbe(op, state, next) ==
    [op |-> op,
     touched |-> Touched(state, next),
     pending |-> IF op = "resolveTurn" THEN state.pendingMoves ELSE << >>]

\* configurations handed to initState
Sizes == {3}
Seeds == {42}
EngineConfigs ==
    {[boardSize |-> b, seed |-> sd, playerCount |-> n, cpuCount |-> 1,
      timerSeconds |-> 0, obstacleCount |-> o] :
        b \in Sizes, sd \in Seeds, n \in 2..3, o \in 0..1}

\* destinations a caller hands to submitMove for player pid: every knight
\* destination on the board (EMPTY or not), one cell off the board by its row,
\* one off the board by its column, and one cell on the board that is no
\* knight move away
IntentCells(state, pid) ==
    LET p == state.players[pid]
        size == state.boardSize
    IN  {d \in {Dest(p.row, p.col, i) : i \in 1..8} : inBounds(d[1], d[2], size)}
        \cup {<<-1, p.col>>, <<p.row, size>>, <<p.row, (p.col + 1) % size>>}

Init ==
    /\ GS \in {initState(cfg) : cfg \in EngineConfigs}
    /\ events = << >>
    /\ raised = FALSE
    /\ lastOp = "initState"
    /\ phaseLog = <<SELECT>>
    /\ config = [boardSize |-> GS.boardSize]
    /\ selectedMove = NoCell
    /\ resolving = FALSE
    /\ timer = NoTimer
    /\ aiTimeouts = 0
    /\ conts = << >>
    /\ gameId = 0
    /\ intents = << >>
    /\ probe = NoProbe

SubmitMove(pid, cell) ==
    /\ GS.phase = SELECT
    /\ GS' = submitMove(GS, pid, cell[1], cell[2])
    /\ probe' = CallProbe("submitMove", GS, GS')
    /\ raised' = FALSE
    /\ lastOp' = "submitMove"
    /\ phaseLog' = << >>
    /\ UNCHANGED <<events, orch>>

ResolveTurn ==
    /\ GS.phase = SELECT
    /\ GS.turn < MaxTurn
    /\ LET r == resolveTurn(GS)
       IN  /\ probe' = CallProbe("resolveTurn", GS, r.nextState)
           /\ IF r.threw
              THEN /\ raised' = TRUE
                   /\ phaseLog' = << >>
                   /\ UNCHANGED <<GS, events>>
              ELSE /\ raised' = FALSE
                   /\ GS' = r.nextState
                   /\ events' = r.events
                   /\ phaseLog' = <<r.nextState.phase>>
    /\ lastOp' = "resolveTurn"
    /\ UNCHANGED orch

EvaluateState ==
    /\ GS.phase = EVAL
    /\ LET r == evaluateState(GS)
       IN  /\ GS' = r.nextState
           /\ events' = r.events
           /\ phaseLog' = <<r.nextState.phase>>
    /\ probe' = CallProbe("evaluateState", GS, GS')
    /\ raised' = FALSE
    /\ lastOp' = "evaluateState"
    /\ UNCHANGED orch

Next ==
    \/ \E pid \in DOMAIN GS.players : \E cell \in IntentCells(GS, pid) :
          SubmitMove(pid, cell)
    \/ ResolveTurn
    \/ EvaluateState

Spec == Init /\ [][Next]_vars

-----------------------------------------------------------------------------
(* The turn orchestrator (game.js).  Each function of game.js is an operator *)
(* on the record of the orchestrator's variables; an action applies the      *)
(* handler the browser runs to completion.  Player 0 is the human.           *)

OWNER_BASE == 10
humanId == 0

Cur ==
    [GS |-> GS, events |-> events, phaseLog |-> << >>, config |-> config,
     selectedMove |-> selectedMove, resolving |-> resolving, timer |-> timer,
     aiTimeouts |-> aiTimeouts, conts |-> conts, intents |-> intents,
     probe |-> NoProbe]

SetPhase(st, ph) ==
    [st EXCEPT !.GS.phase = ph, !.phaseLog = Append(st.phaseLog, ph)]

\* _applyAiStrategy(state, strategy)
applyAiStrategy(state, strategy) ==
    [state EXCEPT !.players =
        [i \in DOMAIN state.players |->
            IF state.players[i].isHuman THEN state.players[i]
            ELSE [state.players[i] EXCEPT !.aiStrategy =
                    IF i % 2 = 0 THEN strategy
                    ELSE IF strategy = "mobility" THEN "aggressor" ELSE "mobility"]]]

\* _patchVisitedWithOwnership(state)
RECURSIVE patchLoop(_, _, _)
patchLoop(state, visited, i) ==
    IF i >= Cardinality(DOMAIN state.players) THEN visited
    ELSE LET q == state.players[i]
         IN  patchLoop(state,
                       IF visited[q.row][q.col] = BLOCKED
                       THEN SetCell(visited, q.row, q.col, OWNER_BASE + q.id)
                       ELSE visited,
                       i + 1)

patchVisitedWithOwnership(state) ==
    [state EXCEPT !.visited = patchLoop(state, state.visited, 0)]

\* Variant: no callback is queued when the human is not ALIVE
beginSelectPhase_NoQueue(st) ==
    IF st.GS.phase # SELECT THEN st
    ELSE LET human == st.GS.players[humanId]
             humanAlive == human.status = ALIVE
             legalMoves == IF humanAlive
                           THEN getLegalMoves(human.row, human.col,
                                              st.GS.boardSize, st.GS.visited)
                           ELSE << >>
         IN  IF st.config.timerSeconds > 0 /\ humanAlive
             THEN [st EXCEPT !.timer = [armed |-> TRUE, legalMoves |-> legalMoves]]
             ELSE st

beginSelectPhase(st) ==
    IF st.GS.phase # SELECT THEN st
    ELSE LET human == st.GS.players[humanId]
             humanAlive == human.status = ALIVE
             legalMoves == IF humanAlive
                           THEN getLegalMoves(human.row, human.col,
                                              st.GS.boardSize, st.GS.visited)
                           ELSE << >>
             st1 == IF st.config.timerSeconds > 0 /\ humanAlive
                    THEN [st EXCEPT !.timer = [armed |-> TRUE, legalMoves |-> legalMoves]]
                    ELSE st
         IN  IF ~humanAlive
             THEN [st1 EXCEPT !.aiTimeouts = st1.aiTimeouts + 1]
             ELSE st1

\* the GameState startGame builds: initState, the strategy override, the patch
newGame(cfg) ==
    LET fresh == initState(cfg)
        strat == IF cfg.aiStrategy # "null"
                 THEN applyAiStrategy(fresh, cfg.aiStrategy) ELSE fresh
    IN  patchVisitedWithOwnership(strat)

startGame(st, cfg) ==
    beginSelectPhase(
        [st EXCEPT !.timer = NoTimer,
                   !.resolving = FALSE,
                   !.selectedMove = NoCell,
                   !.config = cfg,
                   !.intents = << >>,
                   !.GS = newGame(cfg),
                   !.phaseLog = Append(st.phaseLog, SELECT)])

handleCellClick(st, r, c) ==
    IF st.GS.phase # SELECT \/ st.resolving THEN st
    ELSE LET human == st.GS.players[humanId]
             legal == getLegalMoves(human.row, human.col,
                                    st.GS.boardSize, st.GS.visited)
         IN  IF human.status # ALIVE THEN st
             ELSE IF <<r, c>> \notin SeqToSet(legal) THEN st
             ELSE IF st.selectedMove = <<r, c>>
             THEN [st EXCEPT !.selectedMove = NoCell]
             ELSE [st EXCEPT !.selectedMove = <<r, c>>]

\* Variant: _resolving is not set, so a second confirm is accepted while the
\* first one waits for the AI
handleConfirm_NoLock(st) ==
    IF st.GS.phase # SELECT \/ st.resolving THEN st
    ELSE IF st.selectedMove = NoCell THEN st
    ELSE [st EXCEPT
            !.timer = NoTimer,
            !.GS = submitMove(st.GS, humanId, st.selectedMove[1], st.selectedMove[2]),
            !.intents = Append(st.intents, st.selectedMove),
            !.selectedMove = NoCell,
            !.aiTimeouts = st.aiTimeouts + 1]

handleConfirm(st) ==
    IF st.GS.phase # SELECT \/ st.resolving THEN st
    ELSE IF st.selectedMove = NoCell THEN st
    ELSE [st EXCEPT
            !.timer = NoTimer,
            !.resolving = TRUE,
            !.GS = submitMove(st.GS, humanId, st.selectedMove[1], st.selectedMove[2]),
            !.intents = Append(st.intents, st.selectedMove),
            !.selectedMove = NoCell,
            !.aiTimeouts = st.aiTimeouts + 1]

\* the onExpire closure beginSelectPhase hands to startTimer; ui.js stops the
\* interval before it calls the closure
timerExpired(st) ==
    LET legalMoves == st.timer.legalMoves
        st1 == [st EXCEPT !.timer = NoTimer]
        st2 == IF Len(legalMoves) > 0 /\ st1.selectedMove = NoCell
               THEN [st1 EXCEPT !.selectedMove = legalMoves[1]]
               ELSE st1
    IN  handleConfirm(st2)

\* the body of the loop of resolveWithAiMoves for the result ai of
\* computeAiMove(run.GS, pid); run.calls collects the strategy invocations
aiStep(run, pid, ai) ==
    LET s1 == [run.GS EXCEPT !.rng = ai.rng, !.visited = ai.visited]
    IN  [GS |-> IF ai.move # NoCell
                THEN submitMove(s1, pid, ai.move[1], ai.move[2])
                ELSE s1,
         calls |-> run.calls \o ai.calls]

\* the loop of resolveWithAiMoves over the players of GS as it was on entry
RECURSIVE aiLoop(_, _, _)
aiLoop(run, entry, i) ==
    IF i >= Cardinality(DOMAIN entry) THEN run
    ELSE IF ~entry[i].isHuman /\ entry[i].status = ALIVE
    THEN aiLoop(aiStep(run, entry[i].id, computeAiMove(run.GS, entry[i].id)),
                entry, i + 1)
    ELSE aiLoop(run, entry, i + 1)

\* "Patch ownership in visited" for the move events of the round
RECURSIVE patchMoves(_, _, _)
patchMoves(state, evs, i) ==
    IF i > Len(evs) THEN state
    ELSE patchMoves(
            IF evs[i].type = "move" /\ evs[i].pid \in DOMAIN state.players
            THEN [state EXCEPT !.visited =
                     SetCell(state.visited, evs[i].square[1], evs[i].square[2],
                             OWNER_BASE + evs[i].pid)]
            ELSE state,
            evs, i + 1)

\* the tail of executeResolution, after the last await
finishResolution(st) ==
    LET st1 == [st EXCEPT !.resolving = FALSE]
    IN  IF st1.GS.phase = GAMEOVER THEN st1 ELSE beginSelectPhase(st1)

\* the loop over evalEvents: it suspends at "await animateElimination" for the
\* first elimination whose player is found in GS, and finishes when none is left
RECURSIVE awaitEliminations(_, _)
awaitEliminations(st, pids) ==
    IF pids = << >> THEN finishResolution(st)
    ELSE IF Head(pids) \in DOMAIN st.GS.players
    THEN [st EXCEPT !.conts = Append(st.conts, [pc |-> "elim", pids |-> Tail(pids)])]
    ELSE awaitEliminations(st, Tail(pids))

EliminatedPids(evs) ==
    LET el == SelectSeq(evs, LAMBDA e : e.type = "elimination")
    IN  [i \in DOMAIN el |-> el[i].pid]

\* executeResolution from "await Promise.all(movePromises)" on
afterAnimation(st) ==
    LET ev == evaluateState(st.GS)
        st1 == [st EXCEPT !.GS = ev.nextState,
                          !.events = ev.events,
                          !.phaseLog = Append(st.phaseLog, ev.nextState.phase)]
    IN  awaitEliminations(st1, EliminatedPids(ev.events))

\* executeResolution up to "await Promise.all(movePromises)": with no move to
\* animate the await resumes before any other task can run
executeResolution(st) ==
    LET st1 == SetPhase(st, RESOLVE)
        res == resolveTurn(st1.GS)
        st2 == [st1 EXCEPT !.GS = patchMoves(res.nextState, res.events, 1),
                           !.events = res.events,
                           !.phaseLog = Append(st1.phaseLog, res.nextState.phase)]
        moved == \E i \in DOMAIN res.events : res.events[i].type = "move"
    IN  IF moved
        THEN [st2 EXCEPT !.conts = Append(st2.conts, [pc |-> "animate", pids |-> << >>])]
        ELSE afterAnimation(st2)

\* AiRound: what the step leaves in probe, the state the loop started from and
\* the strategy invocations it made
AiRound(entry, calls) == [op |-> "resolveWithAiMoves", entry |-> entry, calls |-> calls]

\* the orchestrator's variables once the loop has returned run
afterAiLoop(st, run) ==
    [st EXCEPT !.GS = run.GS, !.probe = AiRound(st.GS, run.calls)]

resolveWithAiMoves(st) ==
    executeResolution(
        afterAiLoop(st, aiLoop([GS |-> st.GS, calls |-> << >>], st.GS.players, 0)))

\* an await of executeResolution resumes
resume(st, i) ==
    LET cont == st.conts[i]
        st1 == [st EXCEPT !.conts = SubSeq(st.conts, 1, i - 1)
                                      \o SubSeq(st.conts, i + 1, Len(st.conts))]
    IN  IF cont.pc = "animate" THEN afterAnimation(st1)
        ELSE awaitEliminations(st1, cont.pids)

-----------------------------------------------------------------------------
(* SpecGame: the orchestrator under every interleaving of its handlers *)

\* one human at least and one CPU at least, without a strategy override
GameConfigs ==
    UNION {{[boardSize |-> b, seed |-> sd, playerCount |-> n, cpuCount |-> c,
             timerSeconds |-> t, obstacleCount |-> o, aiStrategy |-> "null"] :
               b \in Sizes, sd \in Seeds, c \in 1..(n - 1), t \in {0, 5}, o \in 0..1} :
           n \in 2..3}

\* three players with the override 'x', which _applyAiStrategy gives to player
\* 2, on a board where a player that has moved can move on
CustomConfigs ==
    {[boardSize |-> 4, seed |-> sd, playerCount |-> 3, cpuCount |-> 2,
      timerSeconds |-> 0, obstacleCount |-> 0, aiStrategy |-> "x"] : sd \in Seeds}

\* the state each configuration starts from
NewGames == [cfg \in GameConfigs \cup CustomConfigs |-> newGame(cfg)]

\* the human intents are logged for the run started from scratch, not for the
\* games started after it
Become(st, op) ==
    /\ GS' = st.GS
    /\ events' = st.events
    /\ phaseLog' = st.phaseLog
    /\ config' = st.config
    /\ selectedMove' = st.selectedMove
    /\ resolving' = st.resolving
    /\ timer' = st.timer
    /\ aiTimeouts' = st.aiTimeouts
    /\ conts' = st.conts
    /\ intents' = IF gameId = 1 THEN st.intents ELSE << >>
    /\ raised' = FALSE
    /\ lastOp' = op
    /\ probe' = st.probe

Fresh(cfg) ==
    startGame([GS |-> NewGames[cfg], events |-> << >>, phaseLog |-> << >>,
               config |-> cfg, selectedMove |-> NoCell, resolving |-> FALSE,
               timer |-> NoTimer, aiTimeouts |-> 0, conts |-> << >>,
               intents |-> << >>, probe |-> NoProbe], cfg)

\* the first game has any of the configurations, the games started after it
\* those of GameConfigs
InitGame ==
    \E cfg \in GameConfigs \cup CustomConfigs :
        \E st \in {Fresh(cfg)} :
            /\ GS = st.GS
            /\ events = st.events
            /\ phaseLog = st.phaseLog
            /\ config = st.config
            /\ selectedMove = st.selectedMove
            /\ resolving = st.resolving
            /\ timer = st.timer
            /\ aiTimeouts = st.aiTimeouts
            /\ conts = st.conts
            /\ intents = st.intents
            /\ raised = FALSE
            /\ lastOp = "startGame"
            /\ gameId = 1
            /\ probe = st.probe

StartGame(cfg) ==
    /\ gameId < MaxGames
    /\ gameId' = gameId + 1
    /\ \E st \in {startGame(Cur, cfg)} : Become(st, "startGame")

\* a click that changes nothing (a guard of handleCellClick fails) is no step
CellClick(r, c) ==
    /\ \E st \in {handleCellClick(Cur, r, c)} :
          /\ st.selectedMove # selectedMove
          /\ Become(st, "cellClick")
    /\ UNCHANGED gameId

\* a confirm that changes nothing (a guard of handleConfirm fails) is no step
Confirm ==
    /\ \E st \in {handleConfirm(Cur)} :
          /\ st.aiTimeouts # aiTimeouts
          /\ Become(st, "confirm")
    /\ UNCHANGED gameId

TimerExpire ==
    /\ timer.armed
    /\ \E st \in {timerExpired(Cur)} : Become(st, "timerExpire")
    /\ UNCHANGED gameId

AiTimeout ==
    /\ aiTimeouts > 0
    /\ GS.turn < MaxRounds
    /\ \E st \in {resolveWithAiMoves([Cur EXCEPT !.aiTimeouts = aiTimeouts - 1])} :
          Become(st, "resolveWithAiMoves")
    /\ UNCHANGED gameId

Resume(i) ==
    /\ \E st \in {resume(Cur, i)} : Become(st, "resume")
    /\ UNCHANGED gameId

NextGame ==
    \/ \E cfg \in GameConfigs : StartGame(cfg)
    \/ \E r \in 0..(GS.boardSize - 1), c \in 0..(GS.boardSize - 1) : CellClick(r, c)
    \/ Confirm
    \/ TimerExpire
    \/ AiTimeout
    \/ \E i \in DOMAIN conts : Resume(i)

SpecGame == InitGame /\ [][NextGame]_vars

\* games in which the human can be eliminated while two CPU players play on:
\* a 4x4 board with four obstacles
ProgressConfigs ==
    {[boardSize |-> 4, seed |-> 42, playerCount |-> 3, cpuCount |-> 2,
      timerSeconds |-> t, obstacleCount |-> 4, aiStrategy |-> "null"] : t \in {0, 5}}

InitProgress ==
    \E cfg \in ProgressConfigs :
        \E st \in {startGame([GS |-> newGame(cfg), events |-> << >>,
                              phaseLog |-> << >>, config |-> cfg,
                              selectedMove |-> NoCell, resolving |-> FALSE,
                              timer |-> NoTimer, aiTimeouts |-> 0, conts |-> << >>,
                              intents |-> << >>, probe |-> NoProbe], cfg)} :
            /\ GS = st.GS
            /\ events = st.events
            /\ phaseLog = st.phaseLog
            /\ config = st.config
            /\ selectedMove = st.selectedMove
            /\ resolving = st.resolving
            /\ timer = st.timer
            /\ aiTimeouts = st.aiTimeouts
            /\ conts = st.conts
            /\ intents = st.intents
            /\ raised = FALSE
            /\ lastOp = "startGame"
            /\ gameId = 1
            /\ probe = st.probe

NextProgress ==
    \/ \E cfg \in ProgressConfigs : StartGame(cfg)
    \/ \E r \in 0..(GS.boardSize - 1), c \in 0..(GS.boardSize - 1) : CellClick(r, c)
    \/ Confirm
    \/ TimerExpire
    \/ AiTimeout
    \/ \E i \in DOMAIN conts : Resume(i)

\* AiTimeout is enabled when a callback is pending, Resume when a
\* continuation is suspended; their steps are told by the operation they record
CallbackPending == aiTimeouts > 0 /\ GS.turn < MaxRounds
CallbackRuns == CallbackPending /\ lastOp' = "resolveWithAiMoves"
AwaitPending == conts # << >>
AwaitResumes == AwaitPending /\ lastOp' = "resume"

\* The orchestrator with the scheduling of the browser: a callback handed to
\* setTimeout is run, and an await on an animation resumes.  This is weak
\* fairness of AiTimeout and of Resume, WF_vars(AiTimeout) and
\* WF_vars(\E i \in DOMAIN conts : Resume(i)), with ENABLED written out as
\* the guard of the action: the action is disabled again and again, or it is
\* taken again and again.  No input of the user is ever required to happen.
SpecProgress ==
    /\ InitProgress
    /\ [][NextProgress]_vars
    /\ ([]<>(~CallbackPending) \/ []<><<CallbackRuns>>_vars)
    /\ ([]<>(~AwaitPending) \/ []<><<AwaitResumes>>_vars)

-----------------------------------------------------------------------------
(* SpecInit: initState called with configurations of a bounded set *)

PlaceSizes == {3, 4, 5, 8}
PlaceSeeds == {0, 1, 42, 99998}

\* counts the board has room for, and a count of 30 no board of these sizes
\* has room for, so that the attempts run out
PlaceCounts == {0, 1, 3, 30}

PlaceConfigs ==
    {[boardSize |-> b, seed |-> sd, playerCount |-> n, cpuCount |-> 1,
      timerSeconds |-> 0, obstacleCount |-> o] :
        b \in PlaceSizes, sd \in PlaceSeeds, n \in 2..4, o \in PlaceCounts}

\* game.js: let GS = null
NoGame == [phase |-> "none"]

\* what initState's call of placeObstacles returned
PlaceProbe(placed) ==
    [op |-> "placeObstacles", obstacles |-> placed.obstacles,
     attempts |-> placed.attempts]

InitStateCall ==
    /\ GS = NoGame
    /\ \E placed \in {placeObstacles(config.boardSize, makeRng(config.seed),
                                      defaultStartPositions(config.playerCount,
                                                            config.boardSize),
                                      config.obstacleCount)} :
          /\ GS' = initWith(config, placed)
          /\ probe' = PlaceProbe(placed)
    /\ lastOp' = "initState"
    /\ phaseLog' = <<SELECT>>
    /\ UNCHANGED <<events, raised, config, selectedMove, resolving, timer,
                   aiTimeouts, conts, gameId, intents>>

InitPlace ==
    /\ config \in PlaceConfigs
    /\ GS = NoGame
    /\ probe = NoProbe
    /\ events = << >>
    /\ raised = FALSE
    /\ lastOp = "none"
    /\ phaseLog = << >>
    /\ selectedMove = NoCell
    /\ resolving = FALSE
    /\ timer = NoTimer
    /\ aiTimeouts = 0
    /\ conts = << >>
    /\ gameId = 0
    /\ intents = << >>

NextInit == InitStateCall

SpecInit == InitPlace /\ [][NextInit]_vars

-----------------------------------------------------------------------------
(* SpecRng: a generator made by makeRng and called MaxCalls times *)

RngSeeds == {0, 1, -1, 7, 42, 12345, 65536, 99998, 2147483647, -2147483647}

InitRng ==
    /\ config \in {[seed |-> sd] : sd \in RngSeeds}
    /\ GS = [phase |-> "rng", rng |-> makeRng(config.seed), calls |-> 0]
    /\ events = << >>
    /\ raised = FALSE
    /\ lastOp = "makeRng"
    /\ phaseLog = << >>
    /\ selectedMove = NoCell
    /\ resolving = FALSE
    /\ timer = NoTimer
    /\ aiTimeouts = 0
    /\ conts = << >>
    /\ gameId = 0
    /\ intents = << >>
    /\ probe = NoProbe

\* one call of the closure makeRng returned; probe holds the value returned
RngCall ==
    /\ GS.phase = "rng"
    /\ GS.calls < MaxCalls
    /\ GS' = [GS EXCEPT !.rng = rngStep(GS.rng), !.calls = GS.calls + 1]
    /\ probe' = [op |-> "rng", value |-> rngValue(rngStep(GS.rng))]
    /\ lastOp' = "rng"
    /\ UNCHANGED <<events, raised, phaseLog, orch>>

NextRng == RngCall

SpecRng == InitRng /\ [][NextRng]_vars

-----------------------------------------------------------------------------
(* SpecAi: computeAiMove called on the states of games in progress *)

AiSizes == 3..5

\* the strategy overrides: none (player 1 'mobility', player 2 'aggressor'),
\* 'mobility' (player 1 'aggressor'), 'balanced' and 'x' (player 2), and 'y',
\* a name that is not registered
AiOverrides == {"null", "mobility", "balanced", "x", "y"}

AiSeeds == {7, 42}

AiConfigs ==
    {[boardSize |-> b, seed |-> sd, playerCount |-> n, cpuCount |-> n - 1,
      timerSeconds |-> 0, obstacleCount |-> 0, aiStrategy |-> a] :
        b \in AiSizes, sd \in AiSeeds, n \in 2..3, a \in AiOverrides}

\* initState and the strategy override of startGame
aiGame(cfg) ==
    IF cfg.aiStrategy # "null"
    THEN applyAiStrategy(initState(cfg), cfg.aiStrategy)
    ELSE initState(cfg)

\* the ids computeAiMove is called with: the players and an id no player has
AiIds == 0..3

\* what a call of computeAiMove(entry, pid) did: the move returned (NoCell for
\* null), the state it left behind and the strategy invocations it made
AiProbe(entry, pid, ai) ==
    [op |-> "computeAiMove", pid |-> pid, entry |-> entry, move |-> ai.move,
     after |-> [entry EXCEPT !.rng = ai.rng, !.visited = ai.visited],
     calls |-> ai.calls]

InitAi ==
    /\ GS \in {aiGame(cfg) : cfg \in AiConfigs}
    /\ events = << >>
    /\ raised = FALSE
    /\ lastOp = "initState"
    /\ phaseLog = <<SELECT>>
    /\ config = [boardSize |-> GS.boardSize]
    /\ selectedMove = NoCell
    /\ resolving = FALSE
    /\ timer = NoTimer
    /\ aiTimeouts = 0
    /\ conts = << >>
    /\ gameId = 0
    /\ intents = << >>
    /\ probe = NoProbe

\* the id the next call of a round is for: the human moves or is moved by the
\* first call, then the ids are gone through in order
NextId ==
    IF lastOp = "computeAiMove" THEN probe.pid + 1
    ELSE IF lastOp = "submitMove" THEN humanId + 1
    ELSE humanId

\* computeAiMove(GS, pid) and, as in resolveWithAiMoves, submitMove of the move
\* it returns
ComputeAiMove(pid) ==
    /\ pid = NextId
    /\ \E ai \in {computeAiMove(GS, pid)} :
          /\ probe' = AiProbe(GS, pid, ai)
          /\ GS' = IF ai.move # NoCell
                   THEN submitMove([GS EXCEPT !.rng = ai.rng, !.visited = ai.visited],
                                   pid, ai.move[1], ai.move[2])
                   ELSE [GS EXCEPT !.rng = ai.rng, !.visited = ai.visited]
    /\ raised' = FALSE
    /\ lastOp' = "computeAiMove"
    /\ phaseLog' = << >>
    /\ UNCHANGED <<events, config, selectedMove, resolving, timer, aiTimeouts,
                   conts, gameId, intents>>

\* the human submits a legal move at the start of a round
HumanMove(cell) ==
    /\ GS.players[humanId].status = ALIVE
    /\ NextId = humanId
    /\ SubmitMove(humanId, cell)

\* the round is resolved once every id has been gone through
AiResolveTurn ==
    /\ lastOp = "computeAiMove"
    /\ probe.pid = 3
    /\ ResolveTurn

\* the round is evaluated at once, or after every id has been gone through on
\* the state resolveTurn returned
AiEvaluateState ==
    /\ lastOp = "resolveTurn" \/ (lastOp = "computeAiMove" /\ probe.pid = 3)
    /\ EvaluateState

NextAi ==
    \/ \E pid \in AiIds : ComputeAiMove(pid)
    \/ \E cell \in SeqToSet(getLegalMoves(GS.players[humanId].row,
                                            GS.players[humanId].col,
                                            GS.boardSize, GS.visited)) :
          HumanMove(cell)
    \/ AiResolveTurn
    \/ AiEvaluateState

SpecAi == InitAi /\ [][NextAi]_vars

-----------------------------------------------------------------------------
(* Vocabulary of the properties, stated on the state itself *)

Status(state, i) == state.players[i].status
Pos(state, i) == <<state.players[i].row, state.players[i].col>>
Score(state, i) == state.players[i].score

OnBoard(state, d) ==
    d[1] \in 0..(state.boardSize - 1) /\ d[2] \in 0..(state.boardSize - 1)

Marker(state, d) == state.visited[d[1]][d[2]]

\* the ALIVE players with a pending intent
Movers(state) ==
    {i \in DOMAIN state.players :
        Status(state, i) = ALIVE /\ i \in DOMAIN state.pendingMoves}

\* the movers whose destination is also the destination of another mover
Colliders(state) ==
    {i \in Movers(state) :
        \E j \in Movers(state) : j # i /\ state.pendingMoves[j] = state.pendingMoves[i]}

KnightOffsets ==
    {<<dr, dc>> \in ((-2)..2) \X ((-2)..2) : dr * dr + dc * dc = 5}

\* d is a legal move of player i: a knight offset away, on the board, EMPTY
LegalFor(state, i, d) ==
    /\ <<d[1] - state.players[i].row, d[2] - state.players[i].col>> \in KnightOffsets
    /\ OnBoard(state, d)
    /\ Marker(state, d) = EMPTY

Stays(i) ==
    /\ Pos(GS', i) = Pos(GS, i)
    /\ Score(GS', i) = Score(GS, i)

EventCount(evs, type, square) ==
    Cardinality({k \in DOMAIN evs : evs[k].type = type /\ evs[k].square = square})

ResolveReturned == lastOp' = "resolveTurn" /\ ~raised'

-----------------------------------------------------------------------------
(* C1..C3: collisions and illegal intents in resolveTurn *)

\* C1: in every resolveTurn call, the ALIVE players whose pending intents name
\* the same destination cell keep their row, col and score, and that cell (when
\* it is a cell of the board) keeps the marker it had before the call.
C1_CollidersStay ==
    [][lastOp' = "resolveTurn" =>
        \A i \in Colliders(GS) :
            /\ Stays(i)
            /\ OnBoard(GS, GS.pendingMoves[i]) =>
                  Marker(GS', GS.pendingMoves[i]) = Marker(GS, GS.pendingMoves[i])]_vars

\* a resolveTurn has returned with a collision on an EMPTY cell of the board
\* while another player moved in the same call
C1_Witness ==
    /\ lastOp = "resolveTurn"
    /\ ~raised
    /\ \E k \in DOMAIN events :
          /\ events[k].type = "collision"
          /\ OnBoard(GS, events[k].square)
          /\ Marker(GS, events[k].square) = EMPTY
    /\ \E k \in DOMAIN events : events[k].type = "move"

\* C2: when exactly two ALIVE players submit the same destination cell, the
\* events resolveTurn returns hold exactly one collision event for that cell
\* and the returned state is in phase EVALUATE.
C2_OneCollisionEvent ==
    [][ResolveReturned =>
        \A i \in Colliders(GS) :
            Cardinality({j \in Movers(GS) :
                            GS.pendingMoves[j] = GS.pendingMoves[i]}) = 2
            => /\ EventCount(events', "collision", GS.pendingMoves[i]) = 1
               /\ GS'.phase = EVAL]_vars

\* C3: an intent that is not a legal move of its player (off the board, no
\* knight offset away, or not EMPTY) is dropped by resolveTurn: the call returns,
\* the player keeps row, col and score, and the destination is not marked.
C3_IllegalIntentDropped ==
    [][lastOp' = "resolveTurn" =>
        /\ ~raised'
        /\ \A i \in Movers(GS) :
              ~LegalFor(GS, i, GS.pendingMoves[i]) =>
                  /\ Stays(i)
                  /\ OnBoard(GS, GS.pendingMoves[i]) =>
                        Marker(GS', GS.pendingMoves[i]) = Marker(GS, GS.pendingMoves[i])]_vars

-----------------------------------------------------------------------------
(* C4..C7: termination, GAMEOVER, phase order, grid monotonicity (orchestrator) *)

Cells(state) == (0..(state.boardSize - 1)) \X (0..(state.boardSize - 1))

\* the completed rounds of the game in which at least one move was executed
MoveRounds(state) ==
    {h \in DOMAIN state.history : state.history[h].moves # << >>}

\* C4 as stated: in every reachable state that is not GAMEOVER, turn is at
\* most boardSize^2 - obstacleCount.
C4_Stated ==
    GS.phase # GAMEOVER =>
        GS.turn <= GS.boardSize * GS.boardSize - GS.ruleset.obstacleCount

\* C4: in every reachable state the number of completed rounds in which at
\* least one move was executed is at most boardSize^2 minus the number of
\* obstacles placed; a round without an executed move marks no cell, so turn
\* itself is not bounded and GAMEOVER need not be reached.
C4_MoveRoundsBounded ==
    Cardinality(MoveRounds(GS)) <= GS.boardSize * GS.boardSize - Len(GS.obstacles)

\* a game still running after more rounds than the board has free cells, some
\* of them with a move and the latest one without
C4_Witness ==
    /\ GS.phase = SELECT
    /\ GS.turn > GS.boardSize * GS.boardSize - Len(GS.obstacles)
    /\ MoveRounds(GS) # {}
    /\ GS.history[Len(GS.history)].moves = << >>

\* C5: once the phase is GAMEOVER no step of the same game changes the
\* GameState (status, position, score, grid, turn, history, phase, pending
\* intents), whichever handler or callback runs.
C5_GameOverIsFinal ==
    [][(GS.phase = GAMEOVER /\ gameId' = gameId) => GS' = GS]_vars

PhaseOrder(a, b) ==
    \/ a = SELECT /\ b = RESOLVE
    \/ a = RESOLVE /\ b = EVAL
    \/ a = EVAL /\ b \in {SELECT, GAMEOVER}

\* C6: within one game every assignment of the phase follows the order
\* SELECT -> RESOLVE -> EVALUATE -> SELECT or GAMEOVER, under every
\* interleaving of confirm, timer expiry, delayed AI callbacks, animation
\* completion and startGame.
C6_PhaseOrder ==
    [][gameId' = gameId =>
        LET chain == <<GS.phase>> \o phaseLog'
        IN  \A k \in 1..(Len(chain) - 1) : PhaseOrder(chain[k], chain[k + 1])]_vars

\* C7: within one game a cell of the grid that is not EMPTY never becomes
\* EMPTY again, whichever handler or callback runs (the AI strategies and the
\* ownership patch included).
C7_NeverEmptyAgain ==
    [][gameId' = gameId =>
        \A d \in Cells(GS) : Marker(GS, d) # EMPTY => Marker(GS', d) # EMPTY]_vars

\* a CPU player chose among several moves (a strategy marked and restored the
\* grid), moved, and its cell carries its ownership marker
C7_Witness ==
    /\ lastOp = "resume"
    /\ \E i \in DOMAIN GS.players :
          /\ ~GS.players[i].isHuman
          /\ Score(GS, i) >= 3
          /\ Marker(GS, Pos(GS, i)) = OWNER_BASE + i
    /\ \E d \in Cells(GS) : Marker(GS, d) = OBSTACLE

-----------------------------------------------------------------------------
(* C8..C10: scores, positions, eliminations (engine) *)

\* the move entries recorded for player i in the history of the state
MoveEntries(state, i) ==
    {<<h, k>> \in (DOMAIN state.history) \X (1..Cardinality(DOMAIN state.players)) :
        /\ k \in DOMAIN state.history[h].moves
        /\ state.history[h].moves[k].pid = i}

MoveEvents(evs, i) ==
    {k \in DOMAIN evs : evs[k].type = "move" /\ evs[k].pid = i}

ScoreIsMovesPlusOne ==
    \A i \in DOMAIN GS.players :
        Score(GS, i) = 1 + Cardinality(MoveEntries(GS, i))

\* C8: in every reachable state each player's score is 1 plus the number of
\* move entries the history holds for it; a resolveTurn call raises a score by
\* the number of move events it emits for that player (none for a collision, a
\* blocked intent or a pass), and evaluateState changes no score.
C8_ScoreCountsMoves ==
    /\ []ScoreIsMovesPlusOne
    /\ [][/\ ResolveReturned =>
               \A i \in DOMAIN GS.players :
                   Score(GS', i) = Score(GS, i) + Cardinality(MoveEvents(events', i))
          /\ lastOp' = "evaluateState" =>
               \A i \in DOMAIN GS.players : Score(GS', i) = Score(GS, i)]_vars

\* a player has moved twice, another player's intent was blocked or collided in
\* the call just returned, and a player has been eliminated
C8_Witness ==
    /\ lastOp = "resolveTurn"
    /\ ~raised
    /\ \E i \in DOMAIN GS.players : Score(GS, i) >= 3
    /\ \E k \in DOMAIN events : events[k].type \in {"blocked", "collision"}
    /\ \E i \in DOMAIN GS.players : Status(GS, i) = ELIMINATED

\* the start positions of 2..4 players are distinct on every board of size 3..8
StartsDistinct ==
    \A size \in 3..8, n \in 2..4 :
        LET sp == defaultStartPositions(n, size)
        IN  \A a, b \in 1..n : a # b => sp[a] # sp[b]

\* C9: for boardSize >= 3 and 2..4 players, no two players stand on the same
\* cell in any reachable state.
C9_DistinctPositions ==
    /\ StartsDistinct
    /\ \A i, j \in DOMAIN GS.players : i # j => Pos(GS, i) # Pos(GS, j)

\* a resolveTurn has returned in which a player aimed at the cell another
\* player stands on and was blocked
C9_Witness ==
    /\ lastOp = "resolveTurn"
    /\ ~raised
    /\ \E k \in DOMAIN events :
          /\ events[k].type = "blocked"
          /\ \E j \in DOMAIN GS.players :
                j # events[k].pid /\ Pos(GS, j) = events[k].square

\* the ALIVE players of the state without an EMPTY cell a knight offset away
Stuck(state) ==
    {i \in DOMAIN state.players :
        /\ Status(state, i) = ALIVE
        /\ \A o \in KnightOffsets :
              LET d == <<state.players[i].row + o[1], state.players[i].col + o[2]>>
              IN  ~(OnBoard(state, d) /\ Marker(state, d) = EMPTY)}

\* evaluateState emits one elimination event, carrying the score, for each
\* player of Stuck and for no other player, and changes no score
EliminationEvents ==
    /\ \A i \in DOMAIN GS.players :
          Cardinality({k \in DOMAIN events' :
                          events'[k].type = "elimination" /\ events'[k].pid = i})
              = IF i \in Stuck(GS) THEN 1 ELSE 0
    /\ \A k \in DOMAIN events' :
          events'[k].type = "elimination" => events'[k].score = Score(GS, events'[k].pid)
    /\ \A i \in DOMAIN GS.players : Score(GS', i) = Score(GS, i)

\* C10 as stated: the players ELIMINATED by an evaluateState call are exactly
\* those ALIVE on entry with zero legal moves; one elimination event per such
\* player carries its score; no score changes.
C10_Stated ==
    [][lastOp' = "evaluateState" =>
        /\ {i \in DOMAIN GS.players :
               Status(GS', i) = ELIMINATED /\ Status(GS, i) # ELIMINATED} = Stuck(GS)
        /\ EliminationEvents]_vars

\* C10: evaluateState emits one elimination event carrying the score for
\* exactly the players ALIVE on entry with zero legal moves and changes no
\* score; no other player becomes ELIMINATED, and each such player is
\* ELIMINATED in the returned state unless the call leaves no player ALIVE and
\* the player holds the maximum score, in which case it is returned as WINNER.
C10_EliminatedUnlessWinner ==
    [][lastOp' = "evaluateState" =>
        /\ {i \in DOMAIN GS.players :
               Status(GS', i) = ELIMINATED /\ Status(GS, i) # ELIMINATED}
              \subseteq Stuck(GS)
        /\ \A i \in Stuck(GS) :
              \/ Status(GS', i) = ELIMINATED
              \/ /\ Status(GS', i) = WINNER
                 /\ Stuck(GS) = {j \in DOMAIN GS.players : Status(GS, j) = ALIVE}
                 /\ \A j \in DOMAIN GS.players : Score(GS, j) <= Score(GS, i)
        /\ EliminationEvents]_vars

\* an evaluateState has eliminated every ALIVE player at once, returning one of
\* them ELIMINATED and another WINNER
C10_Witness ==
    /\ lastOp = "evaluateState"
    /\ \E k, l \in DOMAIN events :
          /\ events[k].type = "elimination"
          /\ events[l].type = "elimination"
          /\ Status(GS, events[k].pid) = ELIMINATED
          /\ Status(GS, events[l].pid) = WINNER

-----------------------------------------------------------------------------
(* C11..C13: winners and the status of a player (engine) *)

\* the players still ALIVE once evaluateState has applied its eliminations
Survivors(state) ==
    {i \in DOMAIN state.players : Status(state, i) = ALIVE} \ Stuck(state)

WinnersOf(state) == {i \in DOMAIN state.players : Status(state, i) = WINNER}

WinnerEvents(evs, i) ==
    {k \in DOMAIN evs : evs[k].type = "winner" /\ evs[k].pid = i}

TopScorers(state) ==
    {i \in DOMAIN state.players :
        \A j \in DOMAIN state.players : Score(state, j) <= Score(state, i)}

\* C11: after the eliminations of an evaluateState call, if exactly one player
\* is left ALIVE, that player and no other is WINNER, exactly one winner event
\* is emitted and the phase is GAMEOVER; if two or more are left ALIVE, no
\* player is WINNER, no winner event is emitted and the phase is SELECT.
C11_SoleSurvivorWins ==
    [][lastOp' = "evaluateState" =>
        /\ Cardinality(Survivors(GS)) = 1 =>
              /\ WinnersOf(GS') = Survivors(GS)
              /\ \A i \in DOMAIN GS.players :
                    Cardinality(WinnerEvents(events', i))
                        = IF i \in Survivors(GS) THEN 1 ELSE 0
              /\ GS'.phase = GAMEOVER
        /\ Cardinality(Survivors(GS)) >= 2 =>
              /\ WinnersOf(GS') = {}
              /\ \A i \in DOMAIN GS.players : WinnerEvents(events', i) = {}
              /\ GS'.phase = SELECT]_vars

\* an evaluateState has left a sole survivor that wins although an eliminated
\* player has at least its score
C11_Witness ==
    /\ lastOp = "evaluateState"
    /\ GS.phase = GAMEOVER
    /\ \E i \in DOMAIN GS.players :
          /\ WinnersOf(GS) = {i}
          /\ \A k \in DOMAIN events : events[k].type = "elimination" => events[k].pid # i
          /\ \E j \in DOMAIN GS.players :
                Status(GS, j) = ELIMINATED /\ Score(GS, j) >= Score(GS, i)

\* C12: when an evaluateState call leaves no player ALIVE, the players
\* returned as WINNER are exactly the players holding the maximum score among
\* all players (those eliminated in earlier rounds included), one winner event
\* is emitted for each of them and for no other, and the phase is GAMEOVER.
C12_TopScorersWin ==
    [][(lastOp' = "evaluateState" /\ Survivors(GS) = {}) =>
        /\ WinnersOf(GS') = TopScorers(GS)
        /\ \A i \in DOMAIN GS.players :
              Cardinality(WinnerEvents(events', i))
                  = IF i \in TopScorers(GS) THEN 1 ELSE 0
        /\ GS'.phase = GAMEOVER]_vars

\* player i has no EMPTY cell a knight offset away
Immobile(state, i) ==
    \A o \in KnightOffsets :
        LET d == <<state.players[i].row + o[1], state.players[i].col + o[2]>>
        IN  ~(OnBoard(state, d) /\ Marker(state, d) = EMPTY)

\* an evaluateState has left no player ALIVE (no winner can move), and a
\* player eliminated in an earlier round is among the winners while another
\* player is not
C12_Witness ==
    /\ lastOp = "evaluateState"
    /\ GS.phase = GAMEOVER
    /\ \A i \in WinnersOf(GS) : Immobile(GS, i)
    /\ \E i \in WinnersOf(GS) :
          \A k \in DOMAIN events : events[k].type = "elimination" => events[k].pid # i
    /\ \E j \in DOMAIN GS.players : Status(GS, j) = ELIMINATED

AllAlive == \A i \in DOMAIN GS.players : Status(GS, i) = ALIVE

\* C13: every player starts ALIVE, and a player that is ELIMINATED or WINNER is
\* not ALIVE in any later state.
C13_NoResurrection ==
    /\ AllAlive
    /\ [][\A i \in DOMAIN GS.players :
             Status(GS, i) # ALIVE => Status(GS', i) # ALIVE]_vars

\* play goes on after a round in which a player eliminated earlier took no part
C13_Witness ==
    /\ lastOp = "evaluateState"
    /\ GS.phase = SELECT
    /\ \E i \in DOMAIN GS.players :
          /\ Status(GS, i) = ELIMINATED
          /\ \A k \in DOMAIN events : events[k].pid # i

-----------------------------------------------------------------------------
(* C18, C19: what the orchestrator waits for, and the round timer *)

\* the human players of the state that are ALIVE
LivingHumans(state) ==
    {i \in DOMAIN state.players :
        state.players[i].isHuman /\ Status(state, i) = ALIVE}

\* C18: when the orchestrator resolves a round (resolveWithAiMoves runs and
\* calls resolveTurn), every player that is ALIVE and human has a pending
\* intent for the round.
C18_WaitsForHumans ==
    [][lastOp' = "resolveWithAiMoves" =>
        LivingHumans(GS) \subseteq DOMAIN GS.pendingMoves]_vars

\* C19: whenever the round timer is armed, the game is in phase SELECT and no
\* resolution is in progress.
C19_TimerOnlyInSelect ==
    timer.armed => (GS.phase = SELECT /\ ~resolving)

-----------------------------------------------------------------------------
(* C14: determinism of a run *)

\* one round played back to back: the CPU intents, resolveTurn, the ownership
\* marks, evaluateState
RoundOf(state) ==
    LET res == resolveTurn([aiLoop([GS |-> state, calls |-> << >>], state.players, 0).GS EXCEPT !.phase = RESOLVE])
        ev == evaluateState(patchMoves(res.nextState, res.events, 1))
    IN  [GS |-> ev.nextState, events |-> ev.events]

\* the run the configuration and the human intents determine: rounds are played
\* while the game is in SELECT and the human is eliminated or has an intent left
RECURSIVE Replay(_, _, _)
Replay(run, its, fuel) ==
    IF run.GS.phase # SELECT \/ fuel = 0 THEN run
    ELSE IF Status(run.GS, humanId) = ALIVE
    THEN IF its = << >> THEN run
         ELSE Replay(RoundOf(submitMove(run.GS, humanId, Head(its)[1], Head(its)[2])),
                     Tail(its), fuel - 1)
    ELSE Replay(RoundOf(run.GS), its, fuel - 1)

\* no callback is pending and no resolution is in progress
Quiescent == aiTimeouts = 0 /\ conts = << >> /\ ~resolving

\* C14: in a run started from scratch, whenever no callback is pending, the
\* GameState (obstacles, positions, grid, generator, history) and the last
\* events are the ones determined by the configuration and the sequence of
\* human intents alone, whatever the interleaving of clicks, confirms, timer
\* expiries, AI callbacks and animations that led there.
C14_RunIsReplay ==
    (gameId = 1 /\ Quiescent) =>
        [GS |-> GS, events |-> events]
            = Replay([GS |-> NewGames[config], events |-> << >>], intents, MaxRounds)

\* a run started from scratch has ended after two human intents at least, a
\* CPU player having moved twice
C14_Witness ==
    /\ gameId = 1
    /\ Quiescent
    /\ GS.phase = GAMEOVER
    /\ Len(intents) >= 2
    /\ \E i \in DOMAIN GS.players : ~GS.players[i].isHuman /\ Score(GS, i) >= 3

-----------------------------------------------------------------------------
(* C20: obstacle placement *)

StartCells(state) == {Pos(state, i) : i \in DOMAIN state.players}

\* C20: the obstacles initState places are pairwise distinct cells of the
\* board, marked OBSTACLE, none of them a start cell or a knight move away from
\* a start cell; at most obstacleCount are placed; placeObstacles returns after
\* at most 2000 draws of a cell, and places fewer obstacles than requested only
\* when the 2000 draws are used up.
C20_Placement ==
    probe.op = "placeObstacles" =>
        /\ probe.obstacles = GS.obstacles
        /\ \A a, b \in DOMAIN GS.obstacles : a # b => GS.obstacles[a] # GS.obstacles[b]
        /\ \A a \in DOMAIN GS.obstacles :
              /\ OnBoard(GS, GS.obstacles[a])
              /\ Marker(GS, GS.obstacles[a]) = OBSTACLE
              /\ \A st \in StartCells(GS) :
                    /\ GS.obstacles[a] # st
                    /\ <<GS.obstacles[a][1] - st[1], GS.obstacles[a][2] - st[2]>>
                          \notin KnightOffsets
        /\ Len(GS.obstacles) <= GS.ruleset.obstacleCount
        /\ probe.attempts <= 2000
        /\ Len(GS.obstacles) < GS.ruleset.obstacleCount => probe.attempts = 2000

\* the draws were used up with some obstacles placed, fewer than requested
C20_Witness ==
    /\ probe.op = "placeObstacles"
    /\ probe.attempts = 2000
    /\ Len(GS.obstacles) > 1
    /\ Len(GS.obstacles) < GS.ruleset.obstacleCount

\* the legal moves of player i
LegalSet(state, i) == {d \in Cells(state) : LegalFor(state, i, d)}

\* the number of invocations of the strategy registered as name for player i
CallsOf(calls, name, i) ==
    Cardinality({k \in DOMAIN calls : calls[k].name = name /\ calls[k].pid = i})

\* the non-human players configured with the strategy 'x'
CustomPlayers(state) ==
    {i \in DOMAIN state.players :
        ~state.players[i].isHuman /\ state.players[i].aiStrategy = "x"}

\* C17: in every round the orchestrator resolves, the function registered as
\* 'x' is invoked exactly once for each non-human player configured with 'x'
\* that is ALIVE with more than one legal move when the round's AI moves are
\* computed, and is not invoked for such a player otherwise.
C17_CustomOncePerRound ==
    probe.op = "resolveWithAiMoves" =>
        \A i \in CustomPlayers(probe.entry) :
            CallsOf(probe.calls, "x", i)
                = IF Status(probe.entry, i) = ALIVE
                     /\ Cardinality(LegalSet(probe.entry, i)) > 1
                  THEN 1 ELSE 0

\* a round after the first in which 'x' is invoked for a player, its earlier
\* intent having been cancelled
C17_Witness ==
    /\ probe.op = "resolveWithAiMoves"
    /\ probe.entry.turn >= 1
    /\ \E i \in CustomPlayers(probe.entry) : CallsOf(probe.calls, "x", i) = 1

\* the strategies ai.js registers itself
BuiltIn == {"mobility", "aggressor", "balanced"}

\* C15: a call of computeAiMove that invokes no strategy or a built-in one
\* returns with every cell of the grid as it was on entry and with players,
\* pendingMoves, turn, phase and history as they were; the generator is the
\* only part of the state the call may have advanced.
C15_FrameKept ==
    (probe.op = "computeAiMove"
        /\ \A k \in DOMAIN probe.calls : probe.calls[k].name \in BuiltIn) =>
        /\ \A d \in Cells(probe.entry) : Marker(probe.after, d) = Marker(probe.entry, d)
        /\ probe.after.players = probe.entry.players
        /\ probe.after.pendingMoves = probe.entry.pendingMoves
        /\ probe.after.turn = probe.entry.turn
        /\ probe.after.phase = probe.entry.phase
        /\ probe.after.history = probe.entry.history

\* the 'balanced' strategy has scored three candidates at least on a grid with
\* a pending intent, and has advanced the generator
C15_Witness ==
    /\ probe.op = "computeAiMove"
    /\ Len(probe.calls) = 1
    /\ probe.calls[1].name = "balanced"
    /\ Len(probe.calls[1].moves) >= 3
    /\ probe.after.rng # probe.entry.rng
    /\ DOMAIN probe.entry.pendingMoves # {}

\* the key STRATEGIES is looked up with for player i: the configured name, or
\* 'mobility' when none is configured or the name is not registered
ConfiguredKey(state, i) ==
    IF state.players[i].aiStrategy \in Registered
    THEN state.players[i].aiStrategy ELSE "mobility"

\* C16: computeAiMove returns null (NoCell), without invoking a strategy, for
\* an id no player has, for a player that is not ALIVE and for a player without
\* a legal move; it returns the only legal move, without invoking a strategy
\* and without a generator draw, when there is exactly one; otherwise it
\* invokes the strategy configured for the player once, with all the legal
\* moves, and returns what that strategy returns.
C16_ComputeAiMoveCases ==
    probe.op = "computeAiMove" =>
        IF probe.pid \notin DOMAIN probe.entry.players
        THEN probe.move = NoCell /\ probe.calls = << >> /\ probe.after = probe.entry
        ELSE IF Status(probe.entry, probe.pid) # ALIVE
                \/ LegalSet(probe.entry, probe.pid) = {}
        THEN probe.move = NoCell /\ probe.calls = << >> /\ probe.after = probe.entry
        ELSE IF Cardinality(LegalSet(probe.entry, probe.pid)) = 1
        THEN /\ LegalSet(probe.entry, probe.pid) = {probe.move}
             /\ probe.calls = << >>
             /\ probe.after = probe.entry
        ELSE /\ Len(probe.calls) = 1
             /\ probe.calls[1].pid = probe.pid
             /\ probe.calls[1].name = ConfiguredKey(probe.entry, probe.pid)
             /\ SeqToSet(probe.calls[1].moves) = LegalSet(probe.entry, probe.pid)
             /\ Len(probe.calls[1].moves) = Cardinality(LegalSet(probe.entry, probe.pid))
             /\ probe.move = Dispatch(probe.calls[1].name, probe.entry, probe.pid,
                                      probe.calls[1].moves).move
             /\ probe.move \in LegalSet(probe.entry, probe.pid)

\* a CPU player that has moved has exactly one legal move left, and the call
\* returns it
C16_Witness ==
    /\ probe.op = "computeAiMove"
    /\ probe.pid \in DOMAIN probe.entry.players
    /\ ~probe.entry.players[probe.pid].isHuman
    /\ Status(probe.entry, probe.pid) = ALIVE
    /\ Score(probe.entry, probe.pid) >= 2
    /\ LegalSet(probe.entry, probe.pid) = {probe.move}

\* the i-th start corner of a board of the given size
Corner(i, size) ==
    LET pad == size \div 5
    IN  CASE i = 0 -> <<pad, pad>>
          [] i = 1 -> <<size - 1 - pad, size - 1 - pad>>
          [] i = 2 -> <<pad, size - 1 - pad>>
          [] i = 3 -> <<size - 1 - pad, pad>>

\* C21: the state initState returns has players 0..playerCount-1, player i on
\* the i-th corner (pad, pad), (size-1-pad, size-1-pad), (pad, size-1-pad),
\* (size-1-pad, pad) with pad = floor(size / 5), ALIVE, with score 1 and its
\* start cell not EMPTY; turn is 0, no intent is pending, the history is empty
\* and the phase is SELECT; on a board of size 8 two players start on (1,1)
\* and (6,6).
C21_StartState ==
    lastOp = "initState" =>
        /\ DOMAIN GS.players = 0..(config.playerCount - 1)
        /\ \A i \in DOMAIN GS.players :
              /\ GS.players[i].id = i
              /\ Pos(GS, i) = Corner(i, config.boardSize)
              /\ Status(GS, i) = ALIVE
              /\ Score(GS, i) = 1
              /\ Marker(GS, Pos(GS, i)) # EMPTY
        /\ GS.boardSize = config.boardSize
        /\ GS.turn = 0
        /\ GS.pendingMoves = << >>
        /\ GS.history = << >>
        /\ GS.phase = SELECT
        /\ (config.boardSize = 8 /\ config.playerCount = 2) =>
              Pos(GS, 0) = <<1, 1>> /\ Pos(GS, 1) = <<6, 6>>

\* initState has returned for a board of size 8 with two players and obstacles
C21_Witness ==
    /\ lastOp = "initState"
    /\ GS.boardSize = 8
    /\ Cardinality(DOMAIN GS.players) = 2
    /\ Len(GS.obstacles) = 3
    /\ Pos(GS, 1) = <<6, 6>>

\* the history has one record per resolved turn, numbered from 0
HistoryCountsTurns ==
    /\ Len(GS.history) = GS.turn
    /\ \A h \in DOMAIN GS.history : GS.history[h].turn = h - 1

\* the players whose position differs between two states
Displaced(before, after) ==
    {i \in DOMAIN before.players : Pos(after, i) # Pos(before, i)}

\* C22: every resolveTurn call that returns appends one record to the history
\* and leaves the records before it as they were; the record carries the turn
\* number of the call and one entry, in the order of the player ids, for each
\* player the call has moved, with the cell it left and the cell it reached;
\* the call empties pendingMoves, adds 1 to turn and sets the phase to
\* EVALUATE.  Hence in every reachable state the history is as long as turn
\* and its i-th record is numbered i.
C22_HistoryAppend ==
    /\ []HistoryCountsTurns
    /\ [][ResolveReturned =>
            LET last == GS'.history[Len(GS'.history)]
            IN  /\ Len(GS'.history) = Len(GS.history) + 1
                /\ SubSeq(GS'.history, 1, Len(GS.history)) = GS.history
                /\ last.turn = GS.turn
                /\ {last.moves[k].pid : k \in DOMAIN last.moves} = Displaced(GS, GS')
                /\ \A k \in DOMAIN last.moves :
                      /\ last.moves[k].from = Pos(GS, last.moves[k].pid)
                      /\ last.moves[k].to = Pos(GS', last.moves[k].pid)
                      /\ \A j \in DOMAIN last.moves :
                            j < k => last.moves[j].pid < last.moves[k].pid
                /\ GS'.pendingMoves = << >>
                /\ GS'.turn = GS.turn + 1
                /\ GS'.phase = EVAL]_vars

\* a resolveTurn has appended a record with two moves after a record with a
\* move, an intent of the call having been cancelled or blocked
C22_Witness ==
    /\ lastOp = "resolveTurn"
    /\ ~raised
    /\ Len(GS.history) >= 2
    /\ Len(GS.history[Len(GS.history)].moves) = 2
    /\ GS.history[1].moves # << >>
    /\ \E k \in DOMAIN events : events[k].type # "move"

\* submitMove of the recorded destinations of one turn record
RECURSIVE SubmitRecorded(_, _, _)
SubmitRecorded(state, moves, k) ==
    IF k > Len(moves) THEN state
    ELSE SubmitRecorded(submitMove(state, moves[k].pid, moves[k].to[1], moves[k].to[2]),
                        moves, k + 1)

\* the README's replay: from the state initState returns, for each record of
\* the history in order, the recorded destinations are submitted, the turn is
\* resolved and the state is evaluated
RECURSIVE ReplayHistory(_, _, _)
ReplayHistory(state, history, h) ==
    IF h > Len(history) THEN state
    ELSE ReplayHistory(
            evaluateState(
                resolveTurn(SubmitRecorded(state, history[h].moves, 1)).nextState).nextState,
            history, h + 1)

\* what initState returns for the configurations of the orchestrator
InitOf == [cfg \in GameConfigs \cup CustomConfigs |-> initState(cfg)]

Replayed == ReplayHistory(InitOf[config], GS.history, 1)

\* status, row, col and score of every player
Standing(state) ==
    [i \in DOMAIN state.players |->
        <<Status(state, i), Pos(state, i), Score(state, i)>>]

\* which cells of the grid are EMPTY
EmptyCells(state) == {d \in Cells(state) : Marker(state, d) = EMPTY}

\* C23 as stated: once a game has been played to GAMEOVER, the replay of its
\* history from initState of the same configuration ends in a state with the
\* same players (status, row, col, score), grid, obstacles, turn, phase and
\* history.
C23_ReplayIdentical ==
    (gameId = 1 /\ GS.phase = GAMEOVER) =>
        /\ Standing(Replayed) = Standing(GS)
        /\ Replayed.visited = GS.visited
        /\ Replayed.obstacles = GS.obstacles
        /\ Replayed.turn = GS.turn
        /\ Replayed.phase = GS.phase
        /\ Replayed.history = GS.history

\* what the replay does reproduce: everything but the markers of the visited
\* cells, of which it reproduces which cells are EMPTY
ReplayButMarkers ==
    (gameId = 1 /\ GS.phase = GAMEOVER) =>
        /\ Standing(Replayed) = Standing(GS)
        /\ EmptyCells(Replayed) = EmptyCells(GS)
        /\ Replayed.obstacles = GS.obstacles
        /\ Replayed.turn = GS.turn
        /\ Replayed.phase = GS.phase
        /\ Replayed.history = GS.history

\* the fields the claim lists
Listed == {"players", "visited", "pendingMoves", "turn", "phase", "obstacles", "history"}

OffsetBefore(o1, o2) == o1[1] < o2[1] \/ (o1[1] = o2[1] /\ o1[2] < o2[2])

\* the destinations a knight at cell d0 may take on the grid of state
Reachable(state, d0) ==
    {d \in {<<d0[1] + o[1], d0[2] + o[2]>> : o \in KnightOffsets} :
        OnBoard(state, d) /\ Marker(state, d) = EMPTY}

\* C25: on every grid initState or resolveTurn has produced (nothing else
\* changes a grid) and from every cell of it, getLegalMoves returns exactly the knight
\* destinations that are on the board and EMPTY, each once, in the enumeration
\* order of the offsets (every entry's offset comes before the next entry's),
\* and countMobility is the length of that list.
C25_LegalMoves ==
    lastOp \in {"initState", "resolveTurn"} => \A d0 \in Cells(GS) :
        \E m \in {getLegalMoves(d0[1], d0[2], GS.boardSize, GS.visited)} :
            /\ SeqToSet(m) = Reachable(GS, d0)
            /\ \A k \in 1..(Len(m) - 1) :
                   OffsetBefore(<<m[k][1] - d0[1], m[k][2] - d0[2]>>,
                                <<m[k + 1][1] - d0[1], m[k + 1][2] - d0[2]>>)
            /\ countMobility(d0[1], d0[2], GS.boardSize, GS.visited) = Len(m)

\* after two turns a player stands where three or more moves are listed, with
\* one knight destination off the board and one on the board that is not EMPTY
C25_Witness ==
    /\ lastOp = "resolveTurn"
    /\ GS.turn >= 2
    /\ \E i \in DOMAIN GS.players :
          /\ Len(getLegalMoves(Pos(GS, i)[1], Pos(GS, i)[2], GS.boardSize, GS.visited)) >= 3
          /\ \E o \in KnightOffsets :
                ~OnBoard(GS, <<Pos(GS, i)[1] + o[1], Pos(GS, i)[2] + o[2]>>)
          /\ \E o \in KnightOffsets :
                /\ OnBoard(GS, <<Pos(GS, i)[1] + o[1], Pos(GS, i)[2] + o[2]>>)
                /\ Marker(GS, <<Pos(GS, i)[1] + o[1], Pos(GS, i)[2] + o[2]>>) # EMPTY

\* the first outputs of the 13-17-5 xorshift generator started at 1, and at
\* 42 and 2^32 - 1, as 16-bit halves: 270369, 67634689, 2647435461, 307599695
XorshiftFrom1 == << <<4, 8225>>, <<1032, 1537>>, <<40396, 43205>>, <<4693, 39247>> >>
XorshiftFrom42 == << <<173, 17704>>, <<43274, 13484>>, <<7271, 44803>>, <<55664, 50112>> >>
XorshiftFromOnes == << <<3, 57375>>, <<64519, 65023>>, <<29883, 38979>>, <<61900, 35034>> >>

Expected(seed) ==
    IF seed \in {0, 1} THEN XorshiftFrom1
    ELSE IF seed = 42 THEN XorshiftFrom42
    ELSE XorshiftFromOnes

\* the generator's state after n calls, from the seed alone
RECURSIVE StateAfter(_, _)
StateAfter(seed, n) == IF n = 0 THEN makeRng(seed) ELSE rngStep(StateAfter(seed, n - 1))

\* C26: the state of a generator made by makeRng is a 32-bit word that is
\* never zero: it starts as the seed's 32-bit pattern, or as 1 for seed 0,
\* every call applies the shifts 13 left, 17 right, 5 left with xor and
\* returns the state over 2^32, a value v with 0 <= v < 1, and state and
\* value are determined by the seed and the number of calls.
C26_Generator ==
    /\ GS.rng # {}
    /\ GS.rng \subseteq 0..31
    /\ GS.calls = 0 =>
          rngValue(GS.rng) = IF config.seed = 0 THEN [hi |-> 0, lo |-> 1]
                             ELSE [hi |-> (config.seed \div 65536) % 65536,
                                   lo |-> config.seed % 65536]
    /\ lastOp = "rng" =>
          /\ probe.value = rngValue(GS.rng)
          /\ probe.value.hi \in 0..65535
          /\ probe.value.lo \in 0..65535
          /\ rngFloorMul(GS.rng, 1) = 0
    /\ (config.seed \in {0, 1, 42, -1} /\ GS.calls \in 1..4) =>
          <<probe.value.hi, probe.value.lo>> = Expected(config.seed)[GS.calls]
    /\ GS.rng = StateAfter(config.seed, GS.calls)

\* the generator seeded with 0 has been called three times and has returned a
\* value above one half
C26_Witness ==
    /\ lastOp = "rng"
    /\ config.seed = 0
    /\ GS.calls = 3
    /\ 31 \in GS.rng

\* the sum of the scores of the players with ids below n
RECURSIVE ScoreSum(_, _)
ScoreSum(state, n) == IF n = 0 THEN 0 ELSE Score(state, n - 1) + ScoreSum(state, n - 1)

TotalScore(state) == ScoreSum(state, Cardinality(DOMAIN state.players))

\* the cells of the grid that are not EMPTY
Marked(state) == Cells(state) \ EmptyCells(state)

\* C27: in every state the cells that are not EMPTY are as many as the
\* players' scores and the obstacles together, every cell of the obstacle list
\* holds OBSTACLE, every player stands on a cell that is not EMPTY, and no
\* step of a game changes the obstacle list.
C27_GridAccounts ==
    /\ [](/\ Cardinality(Marked(GS)) = TotalScore(GS) + Len(GS.obstacles)
          /\ \A k \in DOMAIN GS.obstacles : Marker(GS, GS.obstacles[k]) = OBSTACLE
          /\ \A i \in DOMAIN GS.players : Marker(GS, Pos(GS, i)) # EMPTY)
    /\ [][gameId' = gameId => GS'.obstacles = GS.obstacles]_vars

\* two turns have been resolved on a board with an obstacle, and three cells
\* or more were taken by moves
C27_Witness ==
    /\ lastOp = "resolveTurn"
    /\ ~raised
    /\ GS.turn = 2
    /\ Len(GS.obstacles) = 1
    /\ TotalScore(GS) >= Cardinality(DOMAIN GS.players) + 3

\* the ALIVE players with a pending intent for cell sq
MoversTo(state, sq) == {j \in Movers(state) : state.pendingMoves[j] = sq}

\* C28: a resolveTurn call that returns leaves every player that is not ALIVE
\* or has no pending intent where it was, with its score and status, and makes
\* no event for it; the collisions it reports at a cell are those of the ALIVE
\* players heading for it, so that an ALIVE player who alone among the ALIVE
\* heads for an EMPTY cell of the board moves there, whatever intents are
\* recorded for players that are not ALIVE.
C28_OnlyLivingMovers ==
    [][ResolveReturned =>
        /\ \A i \in DOMAIN GS.players \ Movers(GS) :
               /\ Stays(i)
               /\ Status(GS', i) = Status(GS, i)
               /\ \A k \in DOMAIN events' : events'[k].pid # i
        /\ \A i \in DOMAIN GS.pendingMoves :
               EventCount(events', "collision", GS.pendingMoves[i])
                   = IF Cardinality(MoversTo(GS, GS.pendingMoves[i])) >= 2
                     THEN Cardinality(MoversTo(GS, GS.pendingMoves[i]))
                     ELSE 0
        /\ \A j \in Movers(GS) :
               (/\ MoversTo(GS, GS.pendingMoves[j]) = {j}
                /\ OnBoard(GS, GS.pendingMoves[j])
                /\ Marker(GS, GS.pendingMoves[j]) = EMPTY)
                   => Pos(GS', j) = GS.pendingMoves[j]
    ]_vars

\* resolveTurn was handed an intent of a player that is not ALIVE for the cell
\* an ALIVE player moved to in the call, while another ALIVE player had no
\* intent
C28_Witness ==
    /\ lastOp = "resolveTurn"
    /\ ~raised
    /\ \E i, j, n \in DOMAIN GS.players :
          /\ Status(GS, i) # ALIVE
          /\ i \in DOMAIN probe.pending
          /\ Status(GS, j) = ALIVE
          /\ j \in DOMAIN probe.pending
          /\ probe.pending[j] = probe.pending[i]
          /\ Pos(GS, j) = probe.pending[j]
          /\ \E k \in DOMAIN events : events[k].type = "move" /\ events[k].pid = j
          /\ Status(GS, n) = ALIVE
          /\ n \notin DOMAIN probe.pending

\* the legal move of player i that comes first in the enumeration of the offsets
FirstLegal(state, i) ==
    CHOOSE d \in LegalSet(state, i) :
        \A e \in LegalSet(state, i) \ {d} :
            OffsetBefore(<<d[1] - Pos(state, i)[1], d[2] - Pos(state, i)[2]>>,
                         <<e[1] - Pos(state, i)[1], e[2] - Pos(state, i)[2]>>)

\* the timer expires in SELECT while the human is ALIVE, has a legal move and
\* has neither staged nor confirmed one
TimerFiresIdle ==
    /\ lastOp' = "timerExpire"
    /\ timer.armed
    /\ GS.phase = SELECT
    /\ Status(GS, humanId) = ALIVE
    /\ LegalSet(GS, humanId) # {}
    /\ selectedMove = NoCell
    /\ humanId \notin DOMAIN GS.pendingMoves

\* C29: when the timer expires in SELECT while the human is ALIVE, has a legal
\* move and has neither staged nor confirmed one, the human's intent becomes
\* the first legal move on the grid as it is at that moment, and exactly one
\* resolveWithAiMoves callback is scheduled, with the input locked.
C29_TimerSubmitsFirstLegal ==
    [][TimerFiresIdle =>
        /\ humanId \in DOMAIN GS'.pendingMoves
        /\ GS'.pendingMoves[humanId] = FirstLegal(GS, humanId)
        /\ aiTimeouts' = aiTimeouts + 1
        /\ resolving'
        /\ ~timer'.armed
    ]_vars

\* what the timer does in the first game, where no callback of an earlier game
\* is left
TimerInFirstGame ==
    [][(TimerFiresIdle /\ gameId = 1) =>
        /\ humanId \in DOMAIN GS'.pendingMoves
        /\ GS'.pendingMoves[humanId] = FirstLegal(GS, humanId)
        /\ aiTimeouts' = aiTimeouts + 1
        /\ resolving'
        /\ ~timer'.armed
    ]_vars

\* game g is in SELECT, the human is not ALIVE, and the turn counter is even
\* (b = 0) or odd (b = 1); resolving a round changes the counter by one
HumanOut(g, b) ==
    /\ gameId = g
    /\ GS.phase = SELECT
    /\ Status(GS, humanId) # ALIVE
    /\ GS.turn % 2 = b

\* C30: whenever the game is in SELECT and the human is not ALIVE, a
\* resolveWithAiMoves callback is scheduled or a continuation that schedules
\* one is suspended, with no input of the human, and when the scheduled
\* callbacks are run the game leaves that SELECT phase: the round is resolved
\* (the phase changes or the turn counter moves on), unless the game is
\* replaced by a new one first.
C30_EliminatedHumanProgress ==
    /\ []((GS.phase = SELECT /\ Status(GS, humanId) # ALIVE /\ GS.turn < MaxRounds)
             => aiTimeouts > 0 \/ conts # << >>)
    /\ \A g \in 1..MaxGames, b \in {0, 1} :
          (HumanOut(g, b) /\ GS.turn < MaxRounds)
              ~> (GS.phase # SELECT \/ GS.turn % 2 # b \/ gameId # g)

\* a round was resolved and evaluated to SELECT while the human was already
\* eliminated
C30_Witness ==
    /\ lastOp = "resume"
    /\ GS.phase = SELECT
    /\ Status(GS, humanId) = ELIMINATED
    /\ GS.turn >= 2
    /\ \A k \in DOMAIN events : events[k].pid # humanId
    /\ aiTimeouts > 0


-----------------------------------------------------------------------------
(* C31: the outcome of resolveTurn and the order of the players *)

\* the orders in which the second loop of resolveTurn could visit n players
Orders(n) ==
    {o \in [1..n -> 0..(n - 1)] : \A a, b \in 1..n : a # b => o[a] # o[b]}

\* the second loop of resolveTurn, visiting the players in the given order
RECURSIVE resolveIn(_, _, _, _, _)
resolveIn(acc, size, intended, order, k) ==
    IF k > Len(order) \/ acc.threw THEN acc
    ELSE IF order[k] \in DOMAIN intended
         THEN resolveIn(resolveOne(acc, size, intended, order[k]), size, intended, order, k + 1)
         ELSE resolveIn(acc, size, intended, order, k + 1)

\* players and grid resolveTurn leaves when its loop runs in the given order
OutcomeIn(state, order) ==
    LET acc0 == [players |-> state.players, visited |-> state.visited,
                 events |-> << >>, moves |-> << >>, threw |-> FALSE]
        acc == resolveIn(acc0, state.boardSize, Intended(state), order, 1)
    IN  [threw |-> acc.threw, players |-> acc.players, visited |-> acc.visited,
         blocked |-> {k \in DOMAIN acc.events : acc.events[k].type = "blocked"}]

\* every intent of an ALIVE player names an EMPTY cell of the grid
AllTargetsEmpty(state) ==
    \A i \in Movers(state) :
        /\ OnBoard(state, state.pendingMoves[i])
        /\ Marker(state, state.pendingMoves[i]) = EMPTY

\* C31: when every pending intent of an ALIVE player names a cell that is EMPTY
\* in the grid resolveTurn is handed, the call returns, reports no blocked
\* intent, and the positions, scores and grid it returns are those the loop
\* leaves in every order of the players, none of which reports a blocked intent.
C31_OrderFree ==
    [][(lastOp' = "resolveTurn" /\ AllTargetsEmpty(GS)) =>
        /\ ~raised'
        /\ \A k \in DOMAIN events' : events'[k].type # "blocked"
        /\ \A o \in Orders(Cardinality(DOMAIN GS.players)) :
              OutcomeIn(GS, o) = [threw |-> FALSE, players |-> GS'.players,
                                  visited |-> GS'.visited, blocked |-> {}]
    ]_vars

\* a resolveTurn call of a three-player game in which two players headed for
\* one EMPTY cell and the third moved to another
C31_Witness ==
    /\ lastOp = "resolveTurn"
    /\ ~raised
    /\ Cardinality(DOMAIN GS.players) = 3
    /\ \A i \in DOMAIN GS.players : Status(GS, i) = ALIVE /\ i \in DOMAIN probe.pending
    /\ \A k \in DOMAIN events : events[k].type \in {"move", "collision"}
    /\ \E k \in DOMAIN events : events[k].type = "move"
    /\ \E k \in DOMAIN events :
          /\ events[k].type = "collision"
          /\ OnBoard(GS, events[k].square)
          /\ Marker(GS, events[k].square) = EMPTY


-----------------------------------------------------------------------------
(* C32: what phase SELECT and phase GAMEOVER say about the players *)

\* C32: in every state whose phase is SELECT, as initState and evaluateState
\* return it, at least two players are ALIVE and every ALIVE player has a
\* legal move; in every state whose phase is GAMEOVER no player is ALIVE and
\* at least one player is WINNER.
C32_PlayableOrOver ==
    /\ GS.phase = SELECT =>
          /\ Cardinality(AliveIds(GS.players)) >= 2
          /\ Stuck(GS) = {}
    /\ GS.phase = GAMEOVER =>
          /\ AliveIds(GS.players) = {}
          /\ WinnersOf(GS) # {}


\* an evaluateState has ended a game in its second round or later, so that an
\* earlier evaluateState returned phase SELECT, leaving a WINNER next to an
\* ELIMINATED player
C32_Witness ==
    /\ lastOp = "evaluateState"
    /\ GS.phase = GAMEOVER
    /\ GS.turn >= 2
    /\ \E k \in DOMAIN GS.history : Len(GS.history[k].moves) >= 2
    /\ \E i, j \in DOMAIN GS.players :
          Status(GS, i) = WINNER /\ Status(GS, j) = ELIMINATED


-----------------------------------------------------------------------------
(* C33: callbacks scheduled before a startGame *)

\* the executeResolution calls that have called resolveTurn and are suspended
\* at one of their awaits
InProgress == Len(conts)

\* resolveWithAiMoves runs, and with it resolveTurn, while player 0 is ALIVE
ResolvesForLivingHuman ==
    lastOp' = "resolveWithAiMoves" /\ Status(GS, humanId) = ALIVE

\* C33: under every interleaving of confirm, timer expiry, startGame, delayed
\* resolveWithAiMoves callbacks and animation completion, whenever the
\* orchestrator calls resolveTurn while player 0 is ALIVE the intent of player
\* 0 is pending, no other resolution is then in progress, and at most one
\* resolution is in progress in every state.
C33_StaleCallbackInert ==
    /\ [](InProgress <= 1)
    /\ [][ResolvesForLivingHuman =>
            /\ humanId \in DOMAIN GS.pendingMoves
            /\ InProgress = 0
       ]_vars

\* the same within the first game, where no callback of an earlier game is left
FirstGameCallbacks ==
    /\ [](gameId = 1 => InProgress <= 1)
    /\ [][(ResolvesForLivingHuman /\ gameId = 1) =>
            /\ humanId \in DOMAIN GS.pendingMoves
            /\ InProgress = 0
       ]_vars


-----------------------------------------------------------------------------
(* C34: computeAiMove and the pending intents *)

\* the number of draws that take the generator from word x to word y, at most k
RECURSIVE Draws(_, _, _)
Draws(x, y, k) == IF x = y \/ k = 0 THEN 0 ELSE 1 + Draws(rngStep(x), y, k - 1)

\* a strategy draws at most once for each of the eight knight moves
MaxDraws == 8

\* the other pendingMoves a state equal to state in grid, players and generator
\* may hold: none, those of state without the human's, and those of state with
\* the human's intent set to any knight destination of the human on the board
PendingVariants(state) ==
    ({<< >>}
     \cup {[i \in DOMAIN state.pendingMoves \ {humanId} |-> state.pendingMoves[i]]}
     \cup {MapSet(state.pendingMoves, humanId, d) :
             d \in {c \in Cells(state) :
                      <<c[1] - state.players[humanId].row,
                        c[2] - state.players[humanId].col>> \in KnightOffsets}})
    \ {state.pendingMoves}

\* what a caller sees of computeAiMove(state, pid): the move and the draws
AiChoice(state, pid) ==
    LET ai == computeAiMove(state, pid)
    IN  [move |-> ai.move, rng |-> ai.rng,
         draws |-> Draws(state.rng, ai.rng, MaxDraws)]

\* C34: computeAiMove called for a player that is not human returns the move,
\* and makes the number of generator draws, that it returns and makes on every
\* state with the same grid, players and generator and other pending intents,
\* the human's intent for another destination or no intent at all among them.
C34_BlindToIntents ==
    (/\ probe.op = "computeAiMove"
     /\ probe.pid \in DOMAIN probe.entry.players
     /\ ~probe.entry.players[probe.pid].isHuman) =>
        \A pm \in PendingVariants(probe.entry) :
            AiChoice([probe.entry EXCEPT !.pendingMoves = pm], probe.pid)
                = [move |-> probe.move, rng |-> probe.after.rng,
                   draws |-> Draws(probe.entry.rng, probe.after.rng, MaxDraws)]

\* computeAiMove has run a strategy that counts the opponents for a player with
\* several legal moves while the human's intent was pending, and drew from the
\* generator
C34_Witness ==
    /\ probe.op = "computeAiMove"
    /\ probe.pid \in DOMAIN probe.entry.players
    /\ ~probe.entry.players[probe.pid].isHuman
    /\ humanId \in DOMAIN probe.entry.pendingMoves
    /\ Cardinality(PendingVariants(probe.entry)) >= 2
    /\ \E k \in DOMAIN probe.calls : probe.calls[k].name \in {"aggressor", "balanced"}
    /\ Draws(probe.entry.rng, probe.after.rng, MaxDraws) >= 1
    /\ probe.move # NoCell

=============================================================================
